---- MODULE Spec2Model ----
(***************************************************************************)
(* A model of package nett: the race dialer (Dialer.Dial,                  *)
(* resolveAddrsDeadline, dialMulti) and the caching resolver.              *)
(***************************************************************************)
EXTENDS Integers, Sequences, FiniteSets, TLC

(***************************************************************************)
(* Bounds of the model.                                                    *)
(***************************************************************************)
\* the largest number of candidate addresses a resolution yields
MaxAddrs == 3
\* the last instant of the clock
MaxTime == 4
\* the largest Dialer.Timeout
MaxTimeout == 2

(***************************************************************************)
(* Errors.  An error value is a record; OpError carries Op, Net and the    *)
(* inner error, a bare error has an empty Op.                              *)
(***************************************************************************)
NoNet == <<>>

nil == [Op |-> "", Net |-> NoNet, Addr |-> 0, Err |-> "nil"]

BareError(msg) == [Op |-> "", Net |-> NoNet, Addr |-> 0, Err |-> msg]

OpError(op, net, addr, err) == [Op |-> op, Net |-> net, Addr |-> addr, Err |-> err.Err]

errTimeout == BareError("i/o timeout")

errNoSuitableAddress == BareError("no suitable addr found")

errResolve == BareError("lookup failed")

\* (*timeoutError).Timeout and Temporary; an OpError answers for its inner error
Timeout(e) == e.Err = "i/o timeout"

Temporary(e) == e.Err = "i/o timeout"

(***************************************************************************)
(* Networks are strings, kept as sequences of characters so that the       *)
(* prefix test of Dial is computed as the code computes it.                *)
(***************************************************************************)
Networks == { <<"t","c","p">>, <<"t","c","p","4">>, <<"u","d","p">>, <<"i","p">> }

IsTCP(network) == ~(Len(network) < 3 \/ SubSeq(network, 1, 3) # <<"t","c","p">>)

VARIABLES
  rev,           \* which Dial runs: 1 the Dial of dial.go line 109 (Resolver and
                 \* IPFilter, applied while resolving), 2 the Dial of line 342
                 \* (AddrFilter, applied to what resolution returned)
  d,             \* the Dialer: [Timeout, Deadline]; Deadline 0 is the zero time
  call,          \* the arguments of Dial: [network, literal]
  now,           \* the clock
  pc,            \* where the goroutine that called Dial stands
  deadline,      \* the local deadline of Dial; 0 is the zero time
  checkedAt,     \* time.Now() as read by resolveAddrsDeadline; 0 before that
  rpc,           \* the background resolution goroutine: "none", "run", "done"
  resc,          \* the channel resc (capacity 1)
  resolverCalls, \* how many times the Resolver was invoked
  sel,           \* the case the select took: "none", "timer", "resc"
  res,           \* what resolveAddrsDeadline returned: [n, err]
  dialer,        \* the net.Dialer built by netDialer: [Deadline]; -1 before
  osDials,       \* per address, the OS-level dial attempts made
  dialedWith,    \* per address, the Deadline of the net.Dialer that dialed it; -1
                 \* before
  racer,         \* per address, the racing goroutine: [pc, conn, err]
  conns,         \* per address, its connection: "none", "open", "closed"
  sig,           \* the channel sig (capacity 1)
  sigClosed,     \* whether sig was closed
  lane,          \* the channel lane (capacity 1)
  i,             \* the loop variable of dialMulti
  lastErr,       \* lastErr of dialMulti
  ret,           \* what Dial returned: [conn, err]; conn 0 is nil
  returned,      \* the connections handed to the caller
  laneOrder      \* the racers in the order they put their outcome on lane

dialVars == <<rev, d, call, now, pc, deadline, checkedAt, rpc, resc, resolverCalls,
              sel, res, dialer, osDials, dialedWith, racer, conns, sig, sigClosed, lane, i,
              lastErr, ret, returned, laneOrder>>

Addrs == 1..MaxAddrs

\* the instant at which Dial is called
StartTime == 2

IdleRacer == [pc |-> "idle", conn |-> 0, err |-> nil]

\* a deadline that ignores Timeout
DeadlineField(dd, t) == dd.Deadline

\* Dialer.deadline
DialerDeadline(dd, t) ==
  IF dd.Timeout = 0 THEN dd.Deadline
  ELSE LET timeout == t + dd.Timeout
       IN IF dd.Deadline = 0 \/ timeout < dd.Deadline THEN timeout ELSE dd.Deadline

\* The outcomes of resolveAddrList: n candidate addresses, or an error; calls is
\* the number of Resolver invocations it made.  A literal host never reaches the
\* Resolver and yields one address or no suitable address.
ResolveResults(literal) ==
  IF literal
  THEN { [n |-> 1, err |-> nil, calls |-> 0],
         [n |-> 0, err |-> errNoSuitableAddress, calls |-> 0] }
  ELSE { [n |-> 0, err |-> errResolve, calls |-> 1],
         [n |-> 0, err |-> errNoSuitableAddress, calls |-> 1] }
       \cup { [n |-> k, err |-> nil, calls |-> 1] : k \in Addrs }

\* The outcomes of resolveAddrs of resolve.go: a literal host is returned as it
\* is, without a lookup and without narrowing; a name is looked up and narrowed
\* by family.
InternetAddrs(literal) ==
  IF literal
  THEN { [n |-> 1, err |-> nil, calls |-> 0] }
  ELSE { [n |-> 0, err |-> errResolve, calls |-> 1],
         [n |-> 0, err |-> errNoSuitableAddress, calls |-> 1] }
       \cup { [n |-> k, err |-> nil, calls |-> 1] : k \in Addrs }

\* what resolution can yield in the Dial that runs
Resolutions(r, literal) == IF r = 1 THEN ResolveResults(literal) ELSE InternetAddrs(literal)

DialInit ==
  /\ d \in [Timeout : -1..MaxTimeout, Deadline : 0..MaxTime]
  /\ call \in [network : Networks, literal : BOOLEAN]
  /\ now = StartTime
  /\ pc = "start"
  /\ deadline = 0
  /\ checkedAt = 0
  /\ rpc = "none"
  /\ resc = <<>>
  /\ resolverCalls = 0
  /\ sel = "none"
  /\ res = [n |-> 0, err |-> nil]
  /\ dialer = [Deadline |-> -1]
  /\ osDials = [a \in Addrs |-> 0]
  /\ dialedWith = [a \in Addrs |-> -1]
  /\ racer = [a \in Addrs |-> IdleRacer]
  /\ conns = [a \in Addrs |-> "none"]
  /\ sig = <<>>
  /\ sigClosed = FALSE
  /\ lane = <<>>
  /\ i = 0
  /\ lastErr = nil
  /\ ret = [conn |-> 0, err |-> nil]
  /\ returned = {}
  /\ laneOrder = <<>>

(***************************************************************************)
(* Functions of the package looked at on their own: the platform's         *)
(* capabilities, the arguments of the function applied and its result.     *)
(***************************************************************************)
VARIABLES
  supportsIPv4,  \* whether the platform supports IPv4
  supportsIPv6,  \* whether the platform supports IPv6
  input,         \* the arguments of the function
  output,        \* its result
  applied        \* the function that was applied, "" before

fnVars == <<supportsIPv4, supportsIPv6, input, output, applied>>

\* no function is looked at on its own
FnIdle ==
  /\ supportsIPv4 = TRUE
  /\ supportsIPv6 = TRUE
  /\ input = <<>>
  /\ output = <<>>
  /\ applied = ""

\* what no step of Dial changes
cfgVars == <<rev, d, call, fnVars>>

(***************************************************************************)
(* The caching resolver: state.                                            *)
(***************************************************************************)
\* the largest CacheResolver.TTL
MaxTTL == 2
\* the largest number of Resolve calls in a run of concurrent callers
MaxCalls == 3
\* the largest number of Resolve calls in a run of calls made one after another
MaxSeqCalls == 4

Hosts == {"foo.com", "bar.net"}

Callers == {"c1", "c2"}

\* A list of IPs is a slice: a reference to an array on the heap.  The inner
\* resolver holds one per host, the cache one per entry, each caller the one
\* its last Resolve returned.
InnerSlice(h) == <<"inner", h>>

EntrySlice(h) == <<"entry", h>>

CallerSlice(c) == <<"caller", c>>

NoSlice == <<"none", "">>

Slices == { InnerSlice(h) : h \in Hosts } \cup { EntrySlice(h) : h \in Hosts }
          \cup { CallerSlice(c) : c \in Callers }

\* what the inner resolver answers for each host
InnerIPs(h) == IF h = "foo.com" THEN <<"::1">> ELSE <<"127.0.0.1", "::1">>

\* an entry also remembers the instant its expiry was computed from (at, 0 when
\* it has no expiry) and the caller whose write stored its list (ipsBy) and its
\* expiry (expBy)
NoEntry == [ips |-> NoSlice, expiry |-> 0, at |-> 0, ipsBy |-> "", expBy |-> ""]

VARIABLES
  TTL,        \* CacheResolver.TTL
  cache,      \* the cache: per host an entry [ips, expiry], or NoEntry
  heap,       \* per slice, the array it refers to
  lookups,    \* per host, how many times the inner resolver was invoked
  rs,         \* per caller, its Resolve call: where it stands and its locals
  nCalls,     \* the Resolve calls started so far
  succeeded,  \* the hosts for which a Resolve has returned a list
  misses,     \* per host, the lookups in the cache that did not answer
  written,    \* per host, what the last write under the exclusive lock stored
  latest      \* per host, the latest expiry a write has stored so far

cacheVars == <<TTL, cache, heap, lookups, rs, nCalls, succeeded, misses, written, latest>>

\* A Resolve call: pc, host, the locals got (the inner resolver's list), expiry
\* and stamp (the instant the expiry was computed from), the results ips and
\* err; at is the instant the call looked into the cache, dirty says the caller
\* has overwritten an element of the list it was given, afterDirty that the
\* call began after a caller had overwritten a list of the same host.
IdleCall == [pc |-> "idle", host |-> "", got |-> NoSlice, expiry |-> 0, stamp |-> 0,
             ips |-> NoSlice, err |-> nil, at |-> 0, dirty |-> FALSE,
             afterDirty |-> FALSE]

\* the state of the caching resolver while only Dial is looked at
CacheIdle ==
  /\ TTL = 0
  /\ cache = [h \in Hosts |-> NoEntry]
  /\ heap = [s \in Slices |-> <<>>]
  /\ lookups = [h \in Hosts |-> 0]
  /\ rs = [c \in Callers |-> IdleCall]
  /\ nCalls = 0
  /\ succeeded = {}
  /\ misses = [h \in Hosts |-> 0]
  /\ written = [h \in Hosts |-> NoEntry]
  /\ latest = [h \in Hosts |-> 0]

resolveVars == <<rpc, resc, resolverCalls, sel>>

raceVars == <<racer, sig, sigClosed, lane, i, lastErr, laneOrder>>

(***************************************************************************)
(* The clock.  After resolution no step of Dial reads it, so it only moves *)
(* while Dial is computing its deadline or resolving.                      *)
(***************************************************************************)
Tick ==
  /\ pc \in {"resolve", "select"}
  /\ now < MaxTime
  /\ now' = now + 1
  /\ UNCHANGED <<cacheVars, cfgVars, pc, deadline, checkedAt, resolveVars, res, dialer,
                 osDials, dialedWith, conns, raceVars, ret, returned>>

\* Dial, line 110: deadline := d.deadline()
DialStart ==
  /\ pc = "start"
  /\ deadline' = DialerDeadline(d, now)
  /\ pc' = "resolve"
  /\ UNCHANGED <<cacheVars, cfgVars, now, checkedAt, resolveVars, res, dialer, osDials, dialedWith,
                 conns, raceVars, ret, returned>>

\* Resolution runs in the caller, with no timer: the deadline is zero
\* (dial.go line 127, resolve.go line 178), or the Dial of line 342 is given a
\* literal, which resolveInternetAddrs returns before it looks at the deadline.
NoTimer == deadline = 0 \/ (rev = 2 /\ call.literal)

\* resolveAddrsDeadline with a zero deadline: resolveAddrList in the caller
ResolveNoDeadline ==
  /\ pc = "resolve"
  /\ NoTimer
  /\ \E r \in Resolutions(rev, call.literal) :
       /\ res' = [n |-> r.n, err |-> r.err]
       /\ resolverCalls' = resolverCalls + r.calls
  /\ pc' = "resolved"
  /\ UNCHANGED <<cacheVars, cfgVars, now, deadline, checkedAt, rpc, resc, sel, dialer,
                 osDials, dialedWith, conns, raceVars, ret, returned>>

\* a check that lets a deadline equal to the current time through
DeadlineStrictlyPassed(dl, t) == dl - t < 0

\* resolveAddrsDeadline, lines 131-132: timeout := deadline.Sub(time.Now()) <= 0
DeadlinePassed(dl, t) == dl - t <= 0

\* resolveAddrsDeadline, lines 131-134: the deadline is not after time.Now()
ResolveExpired ==
  /\ pc = "resolve"
  /\ ~NoTimer
  /\ DeadlinePassed(deadline, now)
  /\ checkedAt' = now
  /\ res' = [n |-> 0, err |-> errTimeout]
  /\ pc' = "resolved"
  /\ UNCHANGED <<cacheVars, cfgVars, now, deadline, resolveVars, dialer, osDials, dialedWith, conns,
                 raceVars, ret, returned>>

\* resolveAddrsDeadline, lines 135-145: the timer and the resolution goroutine
ResolveSpawn ==
  /\ pc = "resolve"
  /\ ~NoTimer
  /\ ~DeadlinePassed(deadline, now)
  /\ checkedAt' = now
  /\ rpc' = "run"
  /\ pc' = "select"
  /\ UNCHANGED <<cacheVars, cfgVars, now, deadline, resc, resolverCalls, sel, res, dialer,
                 osDials, dialedWith, conns, raceVars, ret, returned>>

\* the goroutine of lines 142-145; resc has room for its one value
ResolverRun ==
  /\ rpc = "run"
  /\ Len(resc) < 1
  /\ \E r \in Resolutions(rev, call.literal) :
       /\ resc' = Append(resc, [n |-> r.n, err |-> r.err])
       /\ resolverCalls' = resolverCalls + r.calls
  /\ rpc' = "done"
  /\ UNCHANGED <<cacheVars, cfgVars, now, pc, deadline, checkedAt, sel, res, dialer,
                 osDials, dialedWith, conns, raceVars, ret, returned>>

\* a select that prefers a resolution result that is already there
TimerOrResult(ch) == IF ch # <<>> THEN Head(ch) ELSE [n |-> 0, err |-> errTimeout]

\* what the select returns when it takes the case <-t.C
TimerResult(ch) == [n |-> 0, err |-> errTimeout]

\* select, case <-t.C: the timer set for deadline - checkedAt has fired
SelectTimer ==
  /\ pc = "select"
  /\ now >= deadline
  /\ sel' = "timer"
  /\ res' = TimerResult(resc)
  /\ pc' = "resolved"
  /\ UNCHANGED <<cacheVars, cfgVars, now, deadline, checkedAt, rpc, resc, resolverCalls,
                 dialer, osDials, dialedWith, conns, raceVars, ret, returned>>

\* select, case r := <-resc
SelectResc ==
  /\ pc = "select"
  /\ resc # <<>>
  /\ sel' = "resc"
  /\ res' = Head(resc)
  /\ resc' = Tail(resc)
  /\ pc' = "resolved"
  /\ UNCHANGED <<cacheVars, cfgVars, now, deadline, checkedAt, rpc, resolverCalls, dialer,
                 osDials, dialedWith, conns, raceVars, ret, returned>>

\* Dial, lines 116-118: the resolution error, wrapped
DialResolveFailed ==
  /\ pc = "resolved"
  /\ res.err # nil
  /\ ret' = [conn |-> 0, err |-> OpError("dial", call.network, 0, res.err)]
  /\ pc' = "done"
  /\ UNCHANGED <<cacheVars, cfgVars, now, deadline, checkedAt, resolveVars, res, dialer,
                 osDials, dialedWith, conns, raceVars, returned>>

\* a Dial that races whenever it has more than one address
SingleAddress(n, network) == n = 1

\* Dial, line 120: one address, or not a TCP network
SingleDial(n, network) == n = 1 \/ ~IsTCP(network)

\* a net.Dialer whose deadline is computed anew when it is built
netDialerAnew(dl) == [Deadline |-> DialerDeadline(d, now)]

\* netDialer (dial.go lines 356-360 in the Dial of line 342): the net.Dialer
\* with the deadline of Dial
netDialer(dl) == [Deadline |-> dl]

\* a Dial that does not look at what the filter left
NeverNoneLeft(n) == FALSE

\* Dial of line 342, line 353: addrs.Len() == 0
NoneLeft(n) == n = 0

\* Dial of line 342, lines 348-355: the AddrFilter selects among the resolved
\* addresses; when it leaves none Dial returns errNoSuitableAddress itself
DialFilter ==
  /\ pc = "resolved"
  /\ rev = 2
  /\ res.err = nil
  /\ \E k \in 0..res.n :
       /\ res' = [n |-> k, err |-> nil]
       /\ IF NoneLeft(k)
          THEN /\ ret' = [conn |-> 0, err |-> errNoSuitableAddress]
               /\ pc' = "done"
          ELSE /\ pc' = "filtered"
               /\ UNCHANGED ret
  /\ UNCHANGED <<cacheVars, cfgVars, now, deadline, checkedAt, resolveVars, dialer,
                 osDials, dialedWith, conns, raceVars, returned>>

\* Dial, lines 119-123: build the net.Dialer and choose the single dial or the race
DialResolved ==
  /\ pc = (IF rev = 1 THEN "resolved" ELSE "filtered")
  /\ res.err = nil
  /\ dialer' = netDialer(deadline)
  /\ pc' = IF SingleDial(res.n, call.network) THEN "single" ELSE "launch"
  /\ UNCHANGED <<cacheVars, cfgVars, now, deadline, checkedAt, resolveVars, res, osDials, dialedWith,
                 conns, raceVars, ret, returned>>

\* the error of a failed OS-level dial to address a
DialError(network, a) == OpError("dial", network, a, BareError("connect failed"))

\* Dial, line 121: dialer.Dial(network, addrs.Addr(0)), its result returned as is
DialSingle ==
  /\ pc = "single"
  /\ osDials' = [osDials EXCEPT ![1] = @ + 1]
  /\ dialedWith' = [dialedWith EXCEPT ![1] = dialer.Deadline]
  /\ \E ok \in BOOLEAN :
       IF ok
       THEN /\ conns' = [conns EXCEPT ![1] = "open"]
            /\ ret' = [conn |-> 1, err |-> nil]
            /\ returned' = returned \cup {1}
       ELSE /\ ret' = [conn |-> 0, err |-> DialError(call.network, 1)]
            /\ UNCHANGED <<conns, returned>>
  /\ pc' = "done"
  /\ UNCHANGED <<cacheVars, cfgVars, now, deadline, checkedAt, resolveVars, res, dialer,
                 raceVars>>

(***************************************************************************)
(* dialMulti.  addrsLen is res.n; racer a is the goroutine started for     *)
(* address a, and the connection it establishes is connection a.           *)
(***************************************************************************)
addrsLen == res.n

\* dialMulti, lines 169-184: start the goroutine of the next address; after the
\* last one, defer close(sig) and lastErr := errTimeout
Launch ==
  /\ pc = "launch"
  /\ IF i < addrsLen
     THEN /\ racer' = [racer EXCEPT ![i + 1].pc = "dial"]
          /\ i' = i + 1
          /\ UNCHANGED <<pc, lastErr>>
     ELSE /\ lastErr' = errTimeout
          /\ i' = 0
          /\ pc' = "sigSend"
          /\ UNCHANGED racer
  /\ UNCHANGED <<cacheVars, cfgVars, now, deadline, checkedAt, resolveVars, res, dialer,
                 osDials, dialedWith, conns, sig, sigClosed, lane, laneOrder, ret, returned>>

\* a racer that dials again after a failure
RetryFailedDial == "dial"

\* racer, lines 171-172: after dialer.Dial has returned, with an error or not,
\* the racer goes on to receive from sig
AfterFailedDial == "recvSig"

\* racer, line 171: c, err := dialer.Dial(network, addrs.Addr(i))
RacerDial(a) ==
  /\ racer[a].pc = "dial"
  /\ osDials' = [osDials EXCEPT ![a] = @ + 1]
  /\ dialedWith' = [dialedWith EXCEPT ![a] = dialer.Deadline]
  /\ \E ok \in BOOLEAN :
       IF ok
       THEN /\ conns' = [conns EXCEPT ![a] = "open"]
            /\ racer' = [racer EXCEPT ![a] = [pc |-> "recvSig", conn |-> a, err |-> nil]]
       ELSE /\ racer' = [racer EXCEPT ![a] = [pc |-> AfterFailedDial, conn |-> 0,
                                               err |-> DialError(call.network, a)]]
            /\ UNCHANGED conns
  /\ UNCHANGED <<cacheVars, cfgVars, now, pc, deadline, checkedAt, resolveVars, res, dialer,
                 sig, sigClosed, lane, i, lastErr, laneOrder, ret, returned>>

\* a racer that forgets to close the connection it lost the race with
LeakLoser(cs, r) == cs

\* racer, lines 174-180: sig is closed; a racer that holds a connection closes it
CloseLoser(cs, r) == IF r.err = nil THEN [cs EXCEPT ![r.conn] = "closed"] ELSE cs

\* racer, line 172: _, ok := <-sig.  A receive takes a buffered token if there
\* is one (ok), and fails (not ok) once sig is closed and empty.
RacerRecvSig(a) ==
  /\ racer[a].pc = "recvSig"
  /\ sig # <<>> \/ sigClosed
  /\ IF sig # <<>>
     THEN /\ sig' = Tail(sig)
          /\ racer' = [racer EXCEPT ![a].pc = "sendLane"]
          /\ UNCHANGED conns
     ELSE /\ conns' = CloseLoser(conns, racer[a])
          /\ racer' = [racer EXCEPT ![a].pc = "done"]
          /\ UNCHANGED sig
  /\ UNCHANGED <<cacheVars, cfgVars, now, pc, deadline, checkedAt, resolveVars, res, dialer,
                 osDials, dialedWith, sigClosed, lane, i, lastErr, laneOrder, ret, returned>>

\* racer, line 173: lane <- racer{c, err}
RacerSendLane(a) ==
  /\ racer[a].pc = "sendLane"
  /\ Len(lane) < 1
  /\ lane' = Append(lane, [conn |-> racer[a].conn, err |-> racer[a].err])
  /\ laneOrder' = Append(laneOrder, a)
  /\ racer' = [racer EXCEPT ![a].pc = "done"]
  /\ UNCHANGED <<cacheVars, cfgVars, now, pc, deadline, checkedAt, resolveVars, res, dialer,
                 osDials, dialedWith, conns, sig, sigClosed, i, lastErr, ret, returned>>

\* a loop that gives up after the first outcome
OneRound(n) == 1

\* dialMulti, line 185: how many outcomes the loop consumes at most
Rounds(n) == n

\* dialMulti, lines 185-186: sig <- true
SigSend ==
  /\ pc = "sigSend"
  /\ i < Rounds(addrsLen)
  /\ Len(sig) < 1
  /\ ~sigClosed
  /\ sig' = Append(sig, TRUE)
  /\ pc' = "laneRecv"
  /\ UNCHANGED <<cacheVars, cfgVars, now, deadline, checkedAt, resolveVars, res, dialer,
                 osDials, dialedWith, conns, racer, sigClosed, lane, i, lastErr, laneOrder,
                 ret, returned>>

\* a loop that keeps the first error it saw
KeepFirstErr(last, e) == IF last = errTimeout THEN e ELSE last

\* a loop that never replaces the error it started with
KeepInitialErr(last, e) == last

\* dialMulti, line 191: lastErr = racer.error
NextLastErr(last, e) == e

\* a dialMulti that leaves sig open when it returns
NoDeferredClose == FALSE

\* dialMulti, line 183: defer close(sig); sig is closed when dialMulti returns
DeferredClose == TRUE

\* a loop that takes no outcome for a success
WonNever(r) == FALSE

\* dialMulti, line 188: if racer.error == nil
Won(r) == r.err = nil

\* dialMulti, lines 187-191: racer := <-lane; a connection is returned at once
\* (the deferred close(sig) runs), an error is kept and the loop goes on
LaneRecv ==
  /\ pc = "laneRecv"
  /\ lane # <<>>
  /\ lane' = Tail(lane)
  /\ LET r == Head(lane)
     IN IF Won(r)
        THEN /\ ret' = [conn |-> r.conn, err |-> nil]
             /\ returned' = returned \cup {r.conn}
             /\ sigClosed' = DeferredClose
             /\ pc' = "done"
             /\ UNCHANGED <<i, lastErr>>
        ELSE /\ lastErr' = NextLastErr(lastErr, r.err)
             /\ i' = i + 1
             /\ pc' = "sigSend"
             /\ UNCHANGED <<ret, returned, sigClosed>>
  /\ UNCHANGED <<cacheVars, cfgVars, now, deadline, checkedAt, resolveVars, res, dialer,
                 osDials, dialedWith, conns, racer, sig, laneOrder>>

\* dialMulti, line 193: return nil, lastErr (the deferred close(sig) runs)
ReturnLastErr ==
  /\ pc = "sigSend"
  /\ ~(i < Rounds(addrsLen))
  /\ ret' = [conn |-> 0, err |-> lastErr]
  /\ sigClosed' = DeferredClose
  /\ pc' = "done"
  /\ UNCHANGED <<cacheVars, cfgVars, now, deadline, checkedAt, resolveVars, res, dialer,
                 osDials, dialedWith, conns, racer, sig, lane, i, lastErr, laneOrder, returned>>

DialNext ==
  \/ Tick
  \/ DialStart
  \/ ResolveNoDeadline
  \/ ResolveExpired
  \/ ResolveSpawn
  \/ ResolverRun
  \/ SelectTimer
  \/ SelectResc
  \/ DialResolveFailed
  \/ DialResolved
  \/ DialSingle
  \/ Launch
  \/ \E a \in Addrs : RacerDial(a)
  \/ \E a \in Addrs : RacerRecvSig(a)
  \/ \E a \in Addrs : RacerSendLane(a)
  \/ SigSend
  \/ LaneRecv
  \/ ReturnLastErr

vars == <<dialVars, cacheVars, fnVars>>

Init == DialInit /\ rev = 1 /\ CacheIdle /\ FnIdle

Next == DialNext

\* Dial in both of its forms
InitDials == DialInit /\ rev \in {1, 2} /\ CacheIdle /\ FnIdle

NextDials == DialNext \/ DialFilter

SpecDials == InitDials /\ [][NextDials]_vars

Spec == Init /\ [][Next]_vars

(***************************************************************************)
(* The race dialer: claims.                                                *)
(***************************************************************************)
Range(f) == { f[k] : k \in DOMAIN f }

Candidates == 1..addrsLen

\* Dial has entered dialMulti and started its first racer
Raced == racer[1].pc # "idle"

AllRacersDone == \A a \in Candidates : racer[a].pc = "done"

Established == { a \in Addrs : conns[a] # "none" }

NoDialAttempt == \A a \in Addrs : osDials[a] = 0

\* C1: in a raced Dial at most one connection is returned, the returned
\* connection is never closed, a racer that ends without having put its outcome
\* on lane has closed the connection it established, and once Dial has returned
\* and all racers have ended every established connection is exactly one of
\* returned and closed.
C1_ReturnedOrClosed ==
  Raced =>
    /\ Cardinality(returned) <= 1
    /\ \A a \in returned : conns[a] = "open"
    /\ \A a \in Established :
         (racer[a].pc = "done" /\ a \notin Range(laneOrder)) => conns[a] = "closed"
    /\ (pc = "done" /\ AllRacersDone) =>
         \A a \in Established : (a \in returned) # (conns[a] = "closed")

\* C1's case: three racers all connect; one connection is returned, two are closed
C1_Witness ==
  /\ Raced /\ pc = "done" /\ AllRacersDone
  /\ addrsLen = 3
  /\ Established = Candidates
  /\ Cardinality(returned) = 1
  /\ Cardinality({ a \in Addrs : conns[a] = "closed" }) = 2

\* C2: when a raced Dial has returned, it returned an error only if all N racers
\* reported an error, and if any attempt established a connection it returned a
\* connection and no error; and once every racer has ended Dial has returned or
\* its next step (the last receive, or the final return) is enabled.
C2_SuccessIfAnyConnects ==
  Raced =>
    /\ pc = "done" =>
         /\ ret.err # nil =>
              /\ ret.conn = 0
              /\ Len(laneOrder) = addrsLen
              /\ \A a \in Candidates : racer[a].err # nil /\ a \in Range(laneOrder)
         /\ Established # {} => (ret.conn \in Established /\ ret.err = nil)
    /\ AllRacersDone =>
         \/ pc = "done"
         \/ pc = "laneRecv" /\ lane # <<>>
         \/ pc = "sigSend" /\ i = addrsLen

\* C2's case: an attempt reported an error first, a later one connected, and
\* Dial returned that connection
C2_Witness ==
  /\ Raced /\ pc = "done" /\ AllRacersDone
  /\ Len(laneOrder) >= 2
  /\ racer[laneOrder[1]].err # nil
  /\ ret.conn # 0 /\ ret.err = nil

\* C3: when every one of the N racers reported an error, Dial returns no
\* connection and the error of the racer that reported last.
C3_LastArrivingError ==
  (Raced /\ pc = "done" /\ \A a \in Candidates : racer[a].err # nil /\ a \in Range(laneOrder)) =>
    /\ ret.conn = 0
    /\ ret.err = racer[laneOrder[addrsLen]].err

\* C3's case: all three racers fail, and the one that reports last is neither
\* the first to report nor the last address of the list
C3_Witness ==
  /\ Raced /\ pc = "done" /\ addrsLen = 3
  /\ Len(laneOrder) = 3
  /\ \A a \in Candidates : racer[a].err # nil
  /\ laneOrder[3] # 3
  /\ ret.err = DialError(call.network, laneOrder[3])
  /\ ret.err # racer[laneOrder[1]].err

\* C4: when the deadline is set and not after the time resolveAddrsDeadline
\* reads, the Resolver is never invoked, no resolution goroutine is started, no
\* OS-level dial is attempted, and Dial returns a Timeout error wrapped as a
\* dial error.
C4_ExpiredDeadline ==
  (checkedAt # 0 /\ deadline # 0 /\ deadline <= checkedAt) =>
    /\ pc \in {"resolved", "done"}
    /\ rpc = "none"
    /\ resolverCalls = 0
    /\ NoDialAttempt
    /\ dialer.Deadline = -1
    /\ pc = "done" =>
         /\ ret.conn = 0
         /\ Timeout(ret.err) /\ Temporary(ret.err)
         /\ ret.err.Op = "dial" /\ ret.err.Net = call.network

\* C4's case: a Deadline equal to the current time, a host name on a TCP network
C4_Witness ==
  /\ pc = "done"
  /\ d.Deadline = checkedAt /\ d.Timeout = 0
  /\ ~call.literal /\ IsTCP(call.network)
  /\ Timeout(ret.err)

\* C5: once the select has taken the timer case, resolveAddrsDeadline has
\* returned errTimeout, no net.Dialer is built and no OS-level dial is
\* attempted, and Dial returns a Timeout error, whatever the resolution
\* goroutine puts on resc before or after.
C5_TimerWins ==
  sel = "timer" =>
    /\ pc \in {"resolved", "done"}
    /\ res = [n |-> 0, err |-> errTimeout]
    /\ NoDialAttempt
    /\ dialer.Deadline = -1
    /\ pc = "done" =>
         /\ ret.conn = 0
         /\ Timeout(ret.err) /\ Temporary(ret.err)
         /\ ret.err.Op = "dial"

\* C5's case: Dial has failed on the timer and a successful resolution sits on resc
C5_Witness ==
  /\ sel = "timer" /\ pc = "done"
  /\ rpc = "done" /\ resc # <<>>
  /\ Head(resc).err = nil /\ Head(resc).n >= 2
  /\ IsTCP(call.network)

\* C5's case: Dial has failed on the timer while the resolution is still running
C5_TimerFirst == sel = "timer" /\ pc = "done" /\ rpc = "run"

(***************************************************************************)
(* The caching resolver: CacheResolver.Resolve, the inner resolver of      *)
(* TestCacheResolver, and a caller that overwrites what it was given.      *)
(***************************************************************************)
dialOther == <<fnVars, rev, d, call, pc, deadline, checkedAt, rpc, resc, resolverCalls, sel,
               res, dialer, osDials, dialedWith, racer, conns, sig, sigClosed, lane, i,
               lastErr, ret, returned, laneOrder>>

\* an entry that answers at exactly its expiry
FreshInclusive(e, t, ttl) == e # NoEntry /\ (ttl <= 0 \/ t <= e.expiry)

\* an entry check that forgets that TTL zero means no expiry
FreshNoSentinel(e, t, ttl) == e # NoEntry /\ t < e.expiry

\* Resolve, step 1: the entry is present and (TTL is no-expiry or now is before
\* its expiry)
Fresh(e, t, ttl) == e # NoEntry /\ (ttl <= 0 \/ t < e.expiry)

\* Resolve, step 3: expiry = now + TTL, or no expiry
Expiry(t, ttl) == IF ttl <= 0 THEN 0 ELSE t + ttl

\* a hit that hands out the cached list itself
HitAlias(c, e) == e.ips

\* Resolve, step 1: the slice a hit returns, a fresh copy
HitResult(c, e) == CallerSlice(c)

\* Resolve, step 3: the slice a miss returns, a fresh copy
MissResult(c, h) == CallerSlice(c)

\* a resolver that drops the entry of a host whose lookup failed
EvictOnError(cch, h) == [cch EXCEPT ![h] = NoEntry]

\* Resolve, step 2: on error the cache is not touched
OnError(cch, h) == cch

InFlight(c, h) == \E o \in Callers \ {c} : rs[o].host = h /\ rs[o].pc \in {"inner", "expiry", "write"}

\* a single-flight cache: a miss joins the lookup another call has in flight
JoinInFlight(c, h) == IF InFlight(c, h) THEN "returned" ELSE "inner"

\* Resolve, step 2: a miss goes on to the inner resolver, outside any lock
AfterMiss(c, h) == "inner"

\* the entry of a host does not answer at instant t: there is none, or t is
\* not before the instant it was computed at plus TTL
Stale(e, t, ttl) == e = NoEntry \/ (ttl > 0 /\ t >= e.at + ttl)

\* Resolve, step 1: under the read lock, look host up; a hit returns a copy
ResolveLookup(c, h) ==
  /\ rs[c].pc \in {"idle", "returned"}
  /\ nCalls' = nCalls + 1
  /\ misses' = [misses EXCEPT ![h] = IF Stale(cache[h], now, TTL) THEN @ + 1 ELSE @]
  /\ LET e == cache[h]
         base == [IdleCall EXCEPT !.host = h, !.at = now,
                    !.afterDirty = \E o \in Callers : rs[o].dirty /\ rs[o].host = h]
         dropped == [heap EXCEPT ![CallerSlice(c)] = <<>>]
     IN IF Fresh(e, now, TTL)
        THEN /\ rs' = [rs EXCEPT ![c] = [base EXCEPT !.pc = "returned", !.ips = HitResult(c, e)]]
             /\ heap' = [dropped EXCEPT ![HitResult(c, e)] = heap[e.ips]]
             /\ succeeded' = succeeded \cup {h}
        ELSE /\ rs' = [rs EXCEPT ![c] = [base EXCEPT !.pc = AfterMiss(c, h)]]
             /\ heap' = dropped
             /\ UNCHANGED succeeded
  /\ UNCHANGED <<TTL, cache, lookups, written, latest, now, dialOther>>

\* Resolve, step 2: the inner resolver is called; it answers with its own list
\* (TestCacheResolver's lookupIPs) or with an error
InnerCall(c) ==
  /\ rs[c].pc = "inner"
  /\ lookups' = [lookups EXCEPT ![rs[c].host] = @ + 1]
  /\ \E ok \in BOOLEAN :
       IF ok
       THEN /\ rs' = [rs EXCEPT ![c].pc = "expiry", ![c].got = InnerSlice(rs[c].host)]
            /\ UNCHANGED cache
       ELSE /\ rs' = [rs EXCEPT ![c].pc = "returned", ![c].err = errResolve]
            /\ cache' = OnError(cache, rs[c].host)
  /\ UNCHANGED <<TTL, heap, nCalls, succeeded, misses, written, latest, now, dialOther>>

\* Resolve, step 3: expiry = now + TTL
ComputeExpiry(c) ==
  /\ rs[c].pc = "expiry"
  /\ rs' = [rs EXCEPT ![c].pc = "write", ![c].expiry = Expiry(now, TTL),
                      ![c].stamp = IF TTL > 0 THEN now ELSE 0]
  /\ UNCHANGED <<TTL, cache, heap, lookups, nCalls, succeeded, misses, written, latest, now, dialOther>>

\* a write that stores the new list and leaves the expiry of the entry it finds
TornStore(old, new) ==
  IF old = NoEntry THEN new
  ELSE [new EXCEPT !.expiry = old.expiry, !.at = old.at, !.expBy = old.expBy]

\* a write that keeps the entry it finds when that entry expires later
KeepLaterExpiry(old, new) == IF old # NoEntry /\ old.expiry > new.expiry THEN old ELSE new

\* Resolve, step 3: the entry a write leaves, given the entry it finds and the
\* new snapshot: the new snapshot, unconditionally
Stored(old, new) == new

\* Resolve, step 3: under the write lock, overwrite the entry of host with the
\* new snapshot; return a fresh copy
WriteEntry(c) ==
  /\ rs[c].pc = "write"
  /\ LET h == rs[c].host
         list == heap[rs[c].got]
         snapshot == [ips |-> EntrySlice(h), expiry |-> rs[c].expiry,
                      at |-> rs[c].stamp, ipsBy |-> c, expBy |-> c]
     IN /\ cache' = [cache EXCEPT ![h] = Stored(@, snapshot)]
        /\ written' = [written EXCEPT ![h] = snapshot]
        /\ latest' = [latest EXCEPT ![h] = IF snapshot.expiry > @ THEN snapshot.expiry ELSE @]
        /\ heap' = [heap EXCEPT ![EntrySlice(h)] = list, ![MissResult(c, h)] = list]
        /\ rs' = [rs EXCEPT ![c].pc = "returned", ![c].ips = MissResult(c, h),
                             ![c].got = NoSlice, ![c].expiry = 0, ![c].stamp = 0]
        /\ succeeded' = succeeded \cup {h}
  /\ UNCHANGED <<TTL, lookups, nCalls, misses, now, dialOther>>

\* TestCacheResolver, line 312: the caller overwrites the first element of the
\* list it was given (ips0[0] = nil)
Mutate(c) ==
  /\ rs[c].pc = "returned"
  /\ rs[c].ips # NoSlice
  /\ heap[rs[c].ips] # <<>>
  /\ heap[rs[c].ips][1] # "nil"
  /\ heap' = [heap EXCEPT ![rs[c].ips][1] = "nil"]
  /\ rs' = [rs EXCEPT ![c].dirty = TRUE]
  /\ UNCHANGED <<TTL, cache, lookups, nCalls, succeeded, misses, written, latest, now, dialOther>>

\* TestCacheResolver, lines 318-324: the test's clock moves on
CacheTick ==
  /\ now < MaxTime
  /\ now' = now + 1
  /\ UNCHANGED <<cacheVars, dialOther>>

\* a CacheResolver with some TTL and an empty cache; no Dial is in progress
CacheInit ==
  /\ DialInit
  /\ rev = 1
  /\ FnIdle
  /\ d = [Timeout |-> 0, Deadline |-> 0]
  /\ call = [network |-> <<"t","c","p">>, literal |-> FALSE]
  /\ TTL \in 0..MaxTTL
  /\ cache = [h \in Hosts |-> NoEntry]
  /\ heap = [s \in Slices |-> IF s[1] = "inner" THEN InnerIPs(s[2]) ELSE <<>>]
  /\ lookups = [h \in Hosts |-> 0]
  /\ rs = [c \in Callers |-> IdleCall]
  /\ nCalls = 0
  /\ succeeded = {}
  /\ misses = [h \in Hosts |-> 0]
  /\ written = [h \in Hosts |-> NoEntry]
  /\ latest = [h \in Hosts |-> 0]

\* Resolve calls by concurrent callers
CacheNext ==
  \/ \E c \in Callers, h \in Hosts : nCalls < MaxCalls /\ ResolveLookup(c, h)
  \/ \E c \in Callers : InnerCall(c)
  \/ \E c \in Callers : ComputeExpiry(c)
  \/ \E c \in Callers : WriteEntry(c)
  \/ \E c \in Callers : Mutate(c)
  \/ CacheTick

SpecCache == CacheInit /\ [][CacheNext]_vars

NoCallInProgress == \A c \in Callers : rs[c].pc \in {"idle", "returned"}

\* Resolve calls made one after another
SeqNext ==
  \/ \E c \in Callers, h \in Hosts :
       nCalls < MaxSeqCalls /\ NoCallInProgress /\ ResolveLookup(c, h)
  \/ \E c \in Callers : InnerCall(c)
  \/ \E c \in Callers : ComputeExpiry(c)
  \/ \E c \in Callers : WriteEntry(c)
  \/ \E c \in Callers : Mutate(c)
  \/ CacheTick

SpecCacheSeq == CacheInit /\ [][SeqNext]_vars

(***************************************************************************)
(* The caching resolver: claims.                                           *)
(***************************************************************************)
\* the calls for host h that are about to invoke the inner resolver
Pending(h) == Cardinality({ c \in Callers : rs[c].pc = "inner" /\ rs[c].host = h })

\* C6: with TTL > 0 and calls made one after another, an entry whose expiry was
\* computed at instant t expires at t + TTL, and the inner resolver is invoked
\* once for each Resolve that finds no entry or finds the current time not
\* before that expiry, and for no other Resolve: per host, the lookup count
\* (plus the call about to look up) equals the number of such Resolves.
C6_LookupIffExpired ==
  TTL > 0 =>
    /\ \A h \in Hosts : cache[h] # NoEntry => cache[h].expiry = cache[h].at + TTL
    /\ \A h \in Hosts : lookups[h] + Pending(h) = misses[h]
    /\ \A c \in Callers :
         (rs[c].pc = "returned" /\ rs[c].err = nil) => rs[c].ips # NoSlice

\* C6's case: after one Resolve that was answered from the cache, foo.com is
\* found expired at exactly its expiry and is looked up a second time while the
\* entry of bar.net, stored later, still answers
C6_Witness ==
  /\ TTL > 0 /\ nCalls = 4
  /\ misses["foo.com"] = 2 /\ misses["bar.net"] = 1
  /\ lookups["foo.com"] = 1 /\ lookups["bar.net"] = 1
  /\ \E c \in Callers :
       /\ rs[c].pc = "inner" /\ rs[c].host = "foo.com"
       /\ rs[c].at = cache["foo.com"].expiry
  /\ cache["bar.net"] # NoEntry /\ now < cache["bar.net"].expiry

\* C7: the list of the inner resolver and the list of every cache entry keep
\* the inner resolver's answer whatever callers overwrite, every list Resolve
\* returned is the caller's own slice, and it holds the inner resolver's answer
\* as long as its own caller has not overwritten it.
C7_IndependentCopies ==
  /\ \A h \in Hosts : heap[InnerSlice(h)] = InnerIPs(h)
  /\ \A h \in Hosts : cache[h] # NoEntry => heap[cache[h].ips] = InnerIPs(h)
  /\ \A c \in Callers :
       (rs[c].pc = "returned" /\ rs[c].err = nil) =>
         /\ rs[c].ips = CallerSlice(c)
         /\ ~rs[c].dirty => heap[rs[c].ips] = InnerIPs(rs[c].host)

\* C7's case: one caller has overwritten the list a miss gave it, and a Resolve
\* of the same host begun after that was answered from the cache
C7_Witness ==
  \E c1, c2 \in Callers :
    /\ c1 # c2 /\ rs[c1].host = rs[c2].host
    /\ rs[c1].pc = "returned" /\ rs[c1].dirty
    /\ rs[c2].pc = "returned" /\ rs[c2].err = nil
    /\ rs[c2].afterDirty /\ ~rs[c2].dirty
    /\ lookups[rs[c2].host] = 1
    /\ heap[rs[c2].ips] = InnerIPs(rs[c2].host)

\* C8: the step in which the inner resolver fails returns that error and no
\* list and leaves every entry (its list and its expiry) as it was, and so does
\* the step in which a Resolve misses.
C8_ErrorLeavesCache ==
  [][\A c \in Callers :
       /\ (rs[c].pc = "inner" /\ rs'[c].pc = "returned") =>
            /\ rs'[c].err = errResolve /\ rs'[c].ips = NoSlice
            /\ cache' = cache
            /\ \A h \in Hosts : heap'[EntrySlice(h)] = heap[EntrySlice(h)]
       /\ (rs[c].pc # "inner" /\ rs'[c].pc = "inner") =>
            /\ cache' = cache
            /\ \A h \in Hosts : heap'[EntrySlice(h)] = heap[EntrySlice(h)]
    ]_vars

\* C8's case: a Resolve of a host whose entry had expired has returned the
\* inner resolver's error, and the expired entry is still there
C8_Witness ==
  \E c \in Callers :
    /\ rs[c].pc = "returned" /\ rs[c].err = errResolve
    /\ TTL > 0
    /\ cache[rs[c].host] # NoEntry
    /\ rs[c].at >= cache[rs[c].host].expiry
    /\ heap[cache[rs[c].host].ips] = InnerIPs(rs[c].host)

\* C8's case: a Resolve of a host with no entry has failed and there is still none
C8_NoEntryCreated ==
  \E c \in Callers :
    /\ rs[c].pc = "returned" /\ rs[c].err = errResolve
    /\ cache[rs[c].host] = NoEntry /\ lookups[rs[c].host] = 1

\* C9: with TTL zero and calls made one after another, no step invokes the
\* inner resolver for a host for which a Resolve has succeeded.
C9_ZeroTTLNeverExpires ==
  [][TTL = 0 => \A h \in succeeded : lookups'[h] = lookups[h]]_vars

\* C9's case: with TTL zero a Resolve at the last instant of the clock is
\* answered from the entry an earlier Resolve stored
C9_Witness ==
  \E c1, c2 \in Callers :
    /\ TTL = 0 /\ c1 # c2
    /\ rs[c1].host = "foo.com" /\ rs[c2].host = "foo.com"
    /\ rs[c1].pc = "returned" /\ rs[c1].err = nil
    /\ rs[c2].pc = "returned" /\ rs[c2].err = nil
    /\ rs[c1].at < rs[c2].at /\ rs[c2].at = MaxTime
    /\ lookups["foo.com"] = 1

\* C10: every Resolve that finds no entry that answers goes on to invoke the
\* inner resolver itself, whatever other calls are in flight: per host, the
\* lookup count (plus the calls about to look up) equals the number of misses.
C10_EveryMissLooksUp ==
  \A h \in Hosts : lookups[h] + Pending(h) = misses[h]

\* C10's case: two concurrent calls for a host with no entry have both missed
\* and the inner resolver has been invoked by each
C10_Witness ==
  \E c1, c2 \in Callers :
    /\ c1 # c2 /\ rs[c1].host = rs[c2].host
    /\ rs[c1].pc \in {"expiry", "write"} /\ rs[c2].pc \in {"expiry", "write"}
    /\ cache[rs[c1].host] = NoEntry
    /\ lookups[rs[c1].host] = 2 /\ misses[rs[c1].host] = 2

\* C10's case: the same for a host whose entry has expired
C10_WitnessExpired ==
  \E c1, c2 \in Callers :
    /\ c1 # c2 /\ rs[c1].host = rs[c2].host
    /\ rs[c1].pc \in {"expiry", "write"} /\ rs[c2].pc \in {"expiry", "write"}
    /\ cache[rs[c1].host] # NoEntry
    /\ rs[c1].at >= cache[rs[c1].host].expiry /\ rs[c2].at >= cache[rs[c1].host].expiry
    /\ lookups[rs[c1].host] = 3

\* C11: under any interleaving of concurrent Resolve calls the entry of a host
\* holds a list and an expiry stored by one and the same write, and it is what
\* the last write under the exclusive lock stored; a Resolve answers from that
\* entry in one step under the shared lock.
C11_EntryFromOneWrite ==
  \A h \in Hosts :
    /\ cache[h].ipsBy = cache[h].expBy
    /\ cache[h] = written[h]
    /\ cache[h] # NoEntry =>
         /\ cache[h].ips = EntrySlice(h)
         /\ cache[h].expiry = Expiry(cache[h].at, TTL)

\* C11's case: two concurrent calls have both missed the same host and both
\* have written; the entry is wholly that of the second writer, whose expiry
\* was computed before that of the first
C11_Witness ==
  \E c1, c2 \in Callers :
    /\ c1 # c2 /\ rs[c1].host = rs[c2].host /\ TTL > 0
    /\ rs[c1].pc = "returned" /\ rs[c1].err = nil
    /\ rs[c2].pc = "returned" /\ rs[c2].err = nil
    /\ nCalls = 2 /\ lookups[rs[c1].host] = 2
    /\ cache[rs[c1].host].ipsBy = c2 /\ cache[rs[c1].host].expBy = c2
    /\ cache[rs[c1].host].at < now

(***************************************************************************)
(* Dial: the single dial, the deadline, the errors.                        *)
(***************************************************************************)
\* the network begins with "tcp"
BeginsWithTCP(network) ==
  Len(network) >= 3 /\ network[1] = "t" /\ network[2] = "c" /\ network[3] = "p"

\* C12: when resolution left exactly one address, or the network does not begin
\* with "tcp", Dial starts no racer and makes no dial attempt to any address
\* but the first; by the time it returns it has made exactly one attempt to
\* the first address, however many addresses the list holds.
C12_SingleDialNoRace ==
  (pc \in {"single", "done"} /\ res.err = nil
     /\ (res.n = 1 \/ ~BeginsWithTCP(call.network))) =>
    /\ \A a \in Addrs : racer[a].pc = "idle"
    /\ sig = <<>> /\ lane = <<>> /\ laneOrder = <<>>
    /\ \A a \in Addrs \ {1} : osDials[a] = 0
    /\ osDials[1] = (IF pc = "done" THEN 1 ELSE 0)
    /\ pc = "done" => (ret.conn = 1 \/ ret.err = DialError(call.network, 1))

\* C12's case: a list of several addresses on a network that is not TCP; Dial
\* has returned the connection to the first address
C12_Witness ==
  /\ pc = "done" /\ res.err = nil /\ res.n = MaxAddrs
  /\ call.network = <<"u","d","p">>
  /\ osDials[1] = 1 /\ ret.conn = 1

\* C12's case: one address on a TCP network
C12_WitnessOneTCP ==
  /\ pc = "done" /\ res.err = nil /\ res.n = 1
  /\ call.network = <<"t","c","p","4">>
  /\ osDials[1] = 1 /\ ret.err = DialError(call.network, 1)

\* no address is left to dial: resolution reported it, or the filter of Dial
\* returned an empty list
ZeroCandidates == res.err = errNoSuitableAddress \/ (res.err = nil /\ res.n = 0)

\* C13: a Dial for which no candidate address was left has returned no
\* connection and the no-suitable-address error, has made no OS-level dial
\* attempt and has started no racer.
C13_NoSuitableAddress ==
  (pc = "done" /\ ZeroCandidates) =>
    /\ ret.conn = 0
    /\ ret.err.Err = errNoSuitableAddress.Err
    /\ NoDialAttempt
    /\ \A a \in Addrs : racer[a].pc = "idle"

\* C13's case: resolution returned several addresses and the filter of Dial
\* left none
C13_Witness ==
  /\ pc = "done" /\ rev = 2 /\ resolverCalls = 1
  /\ res.err = nil /\ res.n = 0
  /\ ret.err.Err = errNoSuitableAddress.Err

\* C13's case: narrowing while resolving left none
C13_WitnessResolving ==
  /\ pc = "done" /\ rev = 1 /\ res.err = errNoSuitableAddress
  /\ ret.err = OpError("dial", call.network, 0, errNoSuitableAddress)

MaxIPs == 2

Forms == {"4", "4in6", "6"}

NilIP == [form |-> "nil", id |-> 0]

\* the lists of at most n IPs; the id of an IP is its place in the list
IPLists(n) ==
  UNION { { [k \in 1..m |-> [form |-> f[k], id |-> k]] : f \in [1..m -> Forms] } : m \in 0..n }

\* len(ip)
IPLen(ip) == IF ip.form = "nil" THEN 0 ELSE IF ip.form = "4" THEN 4 ELSE 16

\* net.IP.To4: the 4-byte form of an IPv4 address, nil for any other
To4(ip) ==
  IF ip.form = "4" THEN ip
  ELSE IF ip.form = "4in6" THEN [form |-> "4", id |-> ip.id]
  ELSE NilIP

ipv4only(ip) == IF supportsIPv4 THEN To4(ip) ELSE NilIP

ipv6only(ip) == IF supportsIPv6 /\ IPLen(ip) = 16 /\ To4(ip) = NilIP THEN ip ELSE NilIP

supportedIP(ip) ==
  IF supportsIPv4 /\ To4(ip) # NilIP THEN To4(ip)
  ELSE IF supportsIPv6 /\ IPLen(ip) = 16 THEN ip
  ELSE NilIP

\* the last character of nett is ch
EndsIn(nett, ch) == nett # <<>> /\ nett[Len(nett)] = ch

\* resolveInternetAddrs, lines 167-173: the filter the network and zone select
FamilyFilter(nett, zone) ==
  LET first == IF EndsIn(nett, "4") THEN "ipv4only" ELSE "SupportedIP"
  IN IF EndsIn(nett, "6") \/ zone # "" THEN "ipv6only" ELSE first

ApplyFilter(name, ip) ==
  IF name = "ipv4only" THEN ipv4only(ip)
  ELSE IF name = "ipv6only" THEN ipv6only(ip)
  ELSE supportedIP(ip)

RECURSIVE Kept(_, _)
\* filterAddrs, lines 214-218: the addresses the filter does not turn into nil
Kept(name, ips) ==
  IF ips = <<>> THEN <<>>
  ELSE LET ip == ApplyFilter(name, Head(ips))
       IN (IF ip # NilIP THEN <<ip>> ELSE <<>>) \o Kept(name, Tail(ips))

\* filterAddrs: the addresses kept, or errNoSuitableAddress when there is none
filterAddrs(name, ips) ==
  LET addrs == Kept(name, ips)
  IN IF addrs = <<>> THEN [addrs |-> <<>>, err |-> errNoSuitableAddress]
     ELSE [addrs |-> addrs, err |-> nil]

NarrowNetworks == { <<"t","c","p">>, <<"t","c","p","4">>, <<"t","c","p","6">>, <<"i","p">> }

Zones == {"", "eth0"}

\* a platform, a network, a zone and the IPs the lookup of the host returns
InitNarrow ==
  /\ DialInit
  /\ rev = 1
  /\ d = [Timeout |-> 0, Deadline |-> 0]
  /\ call = [network |-> <<"t","c","p">>, literal |-> FALSE]
  /\ CacheIdle
  /\ supportsIPv4 \in BOOLEAN
  /\ supportsIPv6 \in BOOLEAN
  /\ input \in [nett : NarrowNetworks, zone : Zones, ips : IPLists(MaxIPs)]
  /\ output = <<>>
  /\ applied = ""

\* resolveInternetAddrs, lines 161-175, for a domain name whose lookup succeeded
NarrowResolved ==
  /\ applied = ""
  /\ applied' = "resolveInternetAddrs"
  /\ output' = filterAddrs(FamilyFilter(input.nett, input.zone), input.ips)
  /\ UNCHANGED <<dialVars, cacheVars, supportsIPv4, supportsIPv6, input>>

SpecNarrow == InitNarrow /\ [][NarrowResolved]_vars

\* the addresses returned
ReturnedAddrs == { output.addrs[k] : k \in DOMAIN output.addrs }

\* C14: for a domain name, every address returned for a network ending in 4 is
\* IPv4 and the platform supports IPv4; every address returned for a network
\* ending in 6 or for a host with a zone is an IPv6 address that is not
\* IPv4-mapped and the platform supports IPv6; for an unsuffixed network every
\* address is of a family the platform supports; and the result is either a
\* list that is not empty or the no-suitable-address error.
C14_NarrowedByFamily ==
  applied = "resolveInternetAddrs" =>
    /\ EndsIn(input.nett, "4") =>
         \A a \in ReturnedAddrs : a.form = "4" /\ supportsIPv4
    /\ (EndsIn(input.nett, "6") \/ input.zone # "") =>
         \A a \in ReturnedAddrs : a.form = "6" /\ supportsIPv6
    /\ (~EndsIn(input.nett, "4") /\ ~EndsIn(input.nett, "6")) =>
         \A a \in ReturnedAddrs :
           \/ a.form = "4" /\ supportsIPv4
           \/ a.form \in {"4in6", "6"} /\ supportsIPv6
    /\ output.err = nil => output.addrs # <<>>
    /\ output.err # nil => output.err = errNoSuitableAddress /\ output.addrs = <<>>

\* C14's failing case: a name with a zone on a network ending in 4; the zone
\* selects ipv6only and an IPv6 address is returned
C14_ZoneOnNetwork4 ==
  /\ applied = "resolveInternetAddrs"
  /\ EndsIn(input.nett, "4") /\ input.zone # ""
  /\ output.err = nil
  /\ \E a \in ReturnedAddrs : a.form = "6"

\* C14 holds of every other case: a host without a zone, or a network that
\* does not end in 4
C14_NarrowedWithoutZoneOn4 ==
  (EndsIn(input.nett, "4") /\ input.zone # "") \/ C14_NarrowedByFamily

\* the earlier of two instants, the second on a tie
Earlier(a, b) == IF a < b THEN a ELSE b

\* C16: the deadline of a Dial call is none (the zero time) when Timeout and
\* Deadline are zero, Deadline when Timeout is zero, the instant of the call
\* plus Timeout when Deadline is zero, and the earlier of the two when both
\* are set.
C16_Deadline ==
  pc # "start" =>
    deadline = (IF d.Timeout = 0 /\ d.Deadline = 0 THEN 0
                ELSE IF d.Timeout = 0 THEN d.Deadline
                ELSE IF d.Deadline = 0 THEN StartTime + d.Timeout
                ELSE Earlier(StartTime + d.Timeout, d.Deadline))

\* C16's case: both are set and now+Timeout is the earlier
C16_Witness ==
  /\ pc = "done" /\ d.Timeout > 0 /\ d.Deadline > StartTime + d.Timeout
  /\ deadline = StartTime + d.Timeout

\* C16's case: both are set and Deadline is the earlier
C16_WitnessDeadline ==
  /\ pc = "done" /\ d.Timeout > 0 /\ d.Deadline # 0
  /\ d.Deadline < StartTime + d.Timeout
  /\ deadline = d.Deadline

\* C17: the deadline is the one computed when Dial was called and never
\* changes; the timer of resolution fires at that instant, and the net.Dialer
\* of the single dial and of every racer carries that same instant, whatever
\* time resolution took.
C17_OneDeadline ==
  /\ pc # "start" => deadline = DialerDeadline(d, StartTime)
  /\ sel = "timer" => (deadline # 0 /\ now >= deadline)
  /\ dialer.Deadline # -1 => dialer.Deadline = deadline
  /\ \A a \in Addrs :
       /\ osDials[a] > 0 => dialedWith[a] = deadline
       /\ osDials[a] = 0 => dialedWith[a] = -1

\* C17's case: a Timeout alone is set, resolution took time, and every racer
\* has dialed with the instant of the call plus Timeout
C17_Witness ==
  /\ pc = "done" /\ d.Timeout > 0 /\ d.Deadline = 0
  /\ sel = "resc" /\ now > StartTime
  /\ res.n >= 2 /\ Raced
  /\ \A a \in Candidates : dialedWith[a] = StartTime + d.Timeout

MaxList == 4

\* the largest max of MaxFilter
MaxMax == 3

AddrForms == {"4", "6", "nil"}

\* the collections of at most n addresses
AddrLists(n) ==
  UNION { { [k \in 1..m |-> [form |-> f[k], id |-> k]] : f \in [1..m -> AddrForms] } : m \in 0..n }

\* five IPv4 addresses followed by five IPv6 addresses
FiveEach == [k \in 1..10 |-> [form |-> IF k <= 5 THEN "4" ELSE "6", id |-> k]]

\* return addrs
Given(list) == [addrs |-> list, given |-> list, same |-> TRUE]

\* return nil, and var a Addrs
Nil(list) == [addrs |-> <<>>, given |-> list, same |-> FALSE]

\* an Append that appends to its receiver as well
AppendToGiven(r, idx) ==
  [r EXCEPT !.addrs = Append(@, r.given[idx]), !.given = Append(@, r.given[idx])]

\* a = addrs.Append(a, i): append(t, a[i]) reads the receiver and writes t
AppendAddr(r, idx) == [r EXCEPT !.addrs = Append(@, r.given[idx])]

\* Go's integer division, which truncates toward zero
Quot(a, b) == IF a >= 0 THEN a \div b ELSE -((-a) \div b)

RECURSIVE DefaultLoopAnyFamily(_, _, _, _)
\* a loop that returns the first address of either family
DefaultLoopAnyFamily(r, idx, n, ipv6) ==
  IF idx > n THEN r
  ELSE IF IPLen(r.given[idx]) \in {4, 16} THEN AppendAddr(r, idx)
  ELSE DefaultLoopAnyFamily(r, idx + 1, n, ipv6)

RECURSIVE DefaultLoop(_, _, _, _)
\* the loop of DefaultFilter and what follows it; ipv6 is -1 or the place of
\* the first IPv6 address
DefaultLoop(r, idx, n, ipv6) ==
  IF idx > n THEN (IF ipv6 = -1 THEN r ELSE AppendAddr(r, ipv6))
  ELSE IF IPLen(r.given[idx]) = 4 THEN AppendAddr(r, idx)
  ELSE IF ipv6 < 0 /\ IPLen(r.given[idx]) = 16 THEN DefaultLoop(r, idx + 1, n, idx)
  ELSE DefaultLoop(r, idx + 1, n, ipv6)

DefaultFilter(list) ==
  IF Len(list) <= 1 THEN Given(list) ELSE DefaultLoop(Nil(list), 1, Len(list), -1)

RECURSIVE defaultIPLoop(_, _, _, _)
\* the loop of defaultIP: ips[i : i+1] is a slice of the list given
defaultIPLoop(r, idx, n, v6) ==
  IF idx > n THEN (IF v6 = -1 THEN r ELSE [r EXCEPT !.addrs = SubSeq(r.given, v6, v6)])
  ELSE IF IPLen(r.given[idx]) = 4 THEN [r EXCEPT !.addrs = SubSeq(r.given, idx, idx)]
  ELSE IF v6 = -1 /\ IPLen(r.given[idx]) = 16 THEN defaultIPLoop(r, idx + 1, n, idx)
  ELSE defaultIPLoop(r, idx + 1, n, v6)

defaultIP(list) ==
  IF Len(list) <= 1 THEN Given(list) ELSE defaultIPLoop(Nil(list), 1, Len(list), -1)

NoFilter(list) == Given(list)

FirstFilter(list) ==
  IF Len(list) <= 1 THEN Given(list) ELSE AppendAddr(Nil(list), 1)

RECURSIVE FirstEachLoop(_, _, _, _, _)
FirstEachLoop(r, idx, n, ipv4, ipv6) ==
  IF idx > n THEN r
  ELSE LET ipLen == IPLen(r.given[idx])
           take4 == ~ipv4 /\ ipLen = 4
           take6 == ~take4 /\ ~ipv6 /\ ipLen = 16
           a     == IF take4 \/ take6 THEN AppendAddr(r, idx) ELSE r
       IN IF (ipv4 \/ take4) /\ (ipv6 \/ take6) THEN a
          ELSE FirstEachLoop(a, idx + 1, n, ipv4 \/ take4, ipv6 \/ take6)

FirstEachFilter(list) ==
  IF Len(list) <= 1 THEN Given(list)
  ELSE FirstEachLoop(Nil(list), 1, Len(list), FALSE, FALSE)

RECURSIVE FirstOfLen(_, _, _, _)
\* the loop of FirstIPv4Filter and of FirstIPv6Filter
FirstOfLen(r, idx, n, ipLen) ==
  IF idx > n THEN r
  ELSE IF IPLen(r.given[idx]) = ipLen THEN AppendAddr(r, idx)
  ELSE FirstOfLen(r, idx + 1, n, ipLen)

FirstIPv4Filter(list) == FirstOfLen(Nil(list), 1, Len(list), 4)

FirstIPv6Filter(list) == FirstOfLen(Nil(list), 1, Len(list), 16)

RECURSIVE AllOfLen(_, _, _, _)
\* the loop of IPv4Filter and of IPv6Filter
AllOfLen(r, idx, n, ipLen) ==
  IF idx > n THEN r
  ELSE AllOfLen(IF IPLen(r.given[idx]) = ipLen THEN AppendAddr(r, idx) ELSE r, idx + 1, n, ipLen)

IPv4Filter(list) == AllOfLen(Nil(list), 1, Len(list), 4)

IPv6Filter(list) == AllOfLen(Nil(list), 1, Len(list), 16)

\* the number of addresses of list whose IP has ipLen bytes
CountOfLen(list, ipLen) == Cardinality({ idx \in DOMAIN list : IPLen(list[idx]) = ipLen })

\* shares whose rounding benefit goes to IPv6
SharesFavourIPv6(max, ipv4, ipv6) ==
  LET halfLen == Quot(max, 2)
  IN IF ipv6 <= halfLen THEN [ipv4 |-> max - ipv6, ipv6 |-> ipv6]
     ELSE IF ipv4 <= halfLen THEN [ipv4 |-> ipv4, ipv6 |-> max - ipv4]
     ELSE [ipv4 |-> halfLen, ipv6 |-> max - halfLen]

\* shares that give the odd place to neither family
SharesNoRounding(max, ipv4, ipv6) ==
  LET halfLen == Quot(max, 2)
  IN IF ipv6 <= halfLen THEN [ipv4 |-> max - ipv6, ipv6 |-> ipv6]
     ELSE IF ipv4 <= halfLen THEN [ipv4 |-> ipv4, ipv6 |-> max - ipv4]
     ELSE [ipv4 |-> halfLen, ipv6 |-> halfLen]

\* MaxFilter, lines 218-225: the share of each family, from the counts
Shares(max, ipv4, ipv6) ==
  LET halfLen == Quot(max, 2)
  IN IF ipv6 <= halfLen THEN [ipv4 |-> max - ipv6, ipv6 |-> ipv6]
     ELSE IF ipv4 <= halfLen THEN [ipv4 |-> ipv4, ipv6 |-> max - ipv4]
     ELSE [ipv4 |-> max - halfLen, ipv6 |-> halfLen]

RECURSIVE MaxLoop(_, _, _, _, _, _)
\* the second loop of MaxFilter; breaks tells the loop of part_005, which
\* stops once both shares are used up
MaxLoop(r, idx, n, ipv4, ipv6, breaks) ==
  IF idx > n THEN r
  ELSE LET ipLen == IPLen(r.given[idx])
           take4 == ipv4 > 0 /\ ipLen = 4
           take6 == ~take4 /\ ipv6 > 0 /\ ipLen = 16
           a     == IF take4 \/ take6 THEN AppendAddr(r, idx) ELSE r
           left4 == IF take4 THEN ipv4 - 1 ELSE ipv4
           left6 == IF take6 THEN ipv6 - 1 ELSE ipv6
       IN IF breaks /\ left4 = 0 /\ left6 = 0 THEN a
          ELSE MaxLoop(a, idx + 1, n, left4, left6, breaks)

\* MaxFilter(max) of filter.go (breaks = FALSE) and of part_005 (TRUE)
MaxFilterRun(max, list, breaks) ==
  IF Len(list) <= max THEN Given(list)
  ELSE LET s == Shares(max, CountOfLen(list, 4), CountOfLen(list, 16))
       IN MaxLoop(Nil(list), 1, Len(list), s.ipv4, s.ipv6, breaks)

MaxFilter(max, list) == MaxFilterRun(max, list, FALSE)

MaxFilter005(max, list) == MaxFilterRun(max, list, TRUE)

RECURSIVE ReverseLoop(_, _)
ReverseLoop(r, idx) == IF idx < 1 THEN r ELSE ReverseLoop(AppendAddr(r, idx), idx - 1)

ReverseFilter(list) ==
  IF Len(list) <= 1 THEN Given(list) ELSE ReverseLoop(Nil(list), Len(list))

\* the orders of 1..n
Perms(n) == { p \in [1..n -> 1..n] : \A idx, j \in 1..n : p[idx] = p[j] => idx = j }

RECURSIVE ShuffleLoop(_, _, _)
ShuffleLoop(r, perm, k) ==
  IF k > Len(perm) THEN r ELSE ShuffleLoop(AppendAddr(r, perm[k]), perm, k + 1)

\* ShuffleFilter, when rand.Perm(addrsLen) returns perm
ShuffleFilter(list, perm) ==
  IF Len(list) <= 1 THEN Given(list) ELSE ShuffleLoop(Nil(list), perm, 1)

\* FirstAddrsFilter of part_006: list.Slice(0, 1) is a slice of the list given
FirstAddrsFilter(list) ==
  IF Len(list) <= 1 THEN Given(list) ELSE [Nil(list) EXCEPT !.addrs = SubSeq(list, 1, 1)]

\* IPv4AddrsFilter of part_006: a = a.Append(list, i) for each IPv4 address
IPv4AddrsFilter(list) == AllOfLen(Nil(list), 1, Len(list), 4)

\* FirstIPv4AddrsFilter of part_006, which returns a list of length <= 1 as it is
FirstIPv4AddrsFilter(list) ==
  IF Len(list) <= 1 THEN Given(list) ELSE FirstOfLen(Nil(list), 1, Len(list), 4)

\* the filters of part_006 that are composed
AddrsFilters == {"IPv4AddrsFilter", "FirstAddrsFilter", "FirstIPv4AddrsFilter"}

\* the filters of filter.go that take no other filter
Filters ==
  { "DefaultFilter", "NoFilter", "FirstFilter", "FirstEachFilter",
    "FirstIPv4Filter", "FirstIPv6Filter", "IPv4Filter", "IPv6Filter",
    "MaxFilter", "ReverseFilter", "ShuffleFilter" }

\* one filter applied to list; p is what rand.Perm returns, if it is called
Filter(name, list, max, p) ==
  CASE name = "DefaultFilter"   -> DefaultFilter(list)
    [] name = "NoFilter"        -> NoFilter(list)
    [] name = "FirstFilter"     -> FirstFilter(list)
    [] name = "FirstEachFilter" -> FirstEachFilter(list)
    [] name = "FirstIPv4Filter" -> FirstIPv4Filter(list)
    [] name = "FirstIPv6Filter" -> FirstIPv6Filter(list)
    [] name = "IPv4Filter"      -> IPv4Filter(list)
    [] name = "IPv6Filter"      -> IPv6Filter(list)
    [] name = "MaxFilter"       -> MaxFilter(max, list)
    [] name = "MaxFilter005"    -> MaxFilter005(max, list)
    [] name = "ReverseFilter"   -> ReverseFilter(list)
    [] name = "ShuffleFilter"   -> ShuffleFilter(list, p)
    [] name = "defaultIP"       -> defaultIP(list)
    [] name = "FirstAddrsFilter"     -> FirstAddrsFilter(list)
    [] name = "IPv4AddrsFilter"      -> IPv4AddrsFilter(list)
    [] name = "FirstIPv4AddrsFilter" -> FirstIPv4AddrsFilter(list)

\* what rand.Perm can return to the filter applied to list
Draws(name, list) ==
  IF name = "ShuffleFilter" /\ Len(list) > 1 THEN Perms(Len(list)) ELSE {<<>>}

\* the results one filter can return for list
FilterRuns(name, list, max) == { Filter(name, list, max, p) : p \in Draws(name, list) }

RECURSIVE ComposeLoop(_, _, _)
\* the loop of ComposeFilters, addrs = filter(addrs), and the results it can
\* end with.  A filter that is handed the collection of the caller leaves it
\* to the caller as it leaves it.
ComposeLoop(filters, r, max) ==
  IF filters = <<>> THEN {r}
  ELSE UNION { ComposeLoop(Tail(filters),
                           [addrs |-> f.addrs,
                            given |-> IF r.same THEN f.given ELSE r.given,
                            same  |-> r.same /\ f.same],
                           max) : f \in FilterRuns(Head(filters), r.addrs, max) }

ComposeFilters(filters, list, max) == ComposeLoop(filters, Given(list), max)

\* ComposeAddrsFilters of part_006, the same loop: list = filter(list)
ComposeAddrsFilters(filters, list) == ComposeLoop(filters, Given(list), 0)

\* the longest collection composed filters are given
MaxComposed == 3

\* the sequences of no, one and two filters
FilterSeqs == {<<>>} \cup { <<f>> : f \in Filters } \cup { <<f, g>> : f, g \in Filters }

\* max is an argument of the filter applied
TakesMax(in) ==
  \/ in.policy \in {"MaxFilter", "MaxFilter005"}
  \/ \E k \in DOMAIN in.filters : in.filters[k] = "MaxFilter"

\* the calls of one filter: the filter, the filters it composes, the collection
\* and max
FilterCalls ==
  { in \in [policy : Filters \cup {"MaxFilter005", "defaultIP"}, filters : {<<>>},
            list : AddrLists(MaxList), max : -1..MaxMax]
           \cup [policy : {"ComposeFilters"}, filters : FilterSeqs,
                 list : AddrLists(MaxComposed), max : -1..MaxMax] :
      TakesMax(in) \/ in.max = 0 }
  \cup [policy : AddrsFilters, filters : {<<>>}, list : AddrLists(MaxList), max : {0}]
  \cup [policy : {"ComposeAddrsFilters"},
        filters : { <<f>> : f \in AddrsFilters } \cup { <<f, g>> : f, g \in AddrsFilters },
        list : AddrLists(MaxList), max : {0}]
  \cup { [policy |-> "MaxFilter", filters |-> <<>>, list |-> FiveEach, max |-> 3],
         [policy |-> "MaxFilter005", filters |-> <<>>, list |-> FiveEach, max |-> 3] }

InitFilters ==
  /\ DialInit
  /\ rev = 1
  /\ d = [Timeout |-> 0, Deadline |-> 0]
  /\ call = [network |-> <<"t","c","p">>, literal |-> FALSE]
  /\ CacheIdle
  /\ supportsIPv4 = TRUE
  /\ supportsIPv6 = TRUE
  /\ input \in FilterCalls
  /\ output = <<>>
  /\ applied = ""

\* one call of a filter
FilterApplied ==
  /\ applied = ""
  /\ output' \in IF input.policy = "ComposeFilters"
                 THEN ComposeFilters(input.filters, input.list, input.max)
                 ELSE IF input.policy = "ComposeAddrsFilters"
                 THEN ComposeAddrsFilters(input.filters, input.list)
                 ELSE FilterRuns(input.policy, input.list, input.max)
  /\ applied' = input.policy
  /\ UNCHANGED <<dialVars, cacheVars, supportsIPv4, supportsIPv6, input>>

SpecFilters == InitFilters /\ [][FilterApplied]_vars

\* the addresses of list that are among the first k4 of 4 bytes or the first
\* k6 of 16 bytes, in the order of list
FirstOfEach(list, k4, k6) ==
  LET Before(a, ipLen) == Cardinality({ j \in 1..a.id : IPLen(list[j]) = ipLen })
      Among(a) == \/ IPLen(a) = 4 /\ Before(a, 4) <= k4
                  \/ IPLen(a) = 16 /\ Before(a, 16) <= k6
  IN SelectSeq(list, Among)

\* C18: MaxFilter(N) returns a list of length <= N unchanged; for a longer list
\* it returns, in original order, the first k4 IPv4 and the first k6 IPv6
\* addresses of the input, where half = N div 2 and (k4, k6) is
\* (N - #IPv6, #IPv6) if #IPv6 <= half, else (#IPv4, N - #IPv4) if
\* #IPv4 <= half, else (N - half, half).
C18_MaxFilterSplit ==
  applied \in {"MaxFilter", "MaxFilter005"} =>
    LET N    == input.max
        n4   == CountOfLen(input.list, 4)
        n6   == CountOfLen(input.list, 16)
        half == N \div 2
        k    == IF n6 <= half THEN <<N - n6, n6>>
                ELSE IF n4 <= half THEN <<n4, N - n4>>
                ELSE <<N - half, half>>
    IN output.addrs = IF Len(input.list) <= N THEN input.list
                      ELSE FirstOfEach(input.list, k[1], k[2])

\* the addresses of the result whose IP has ipLen bytes
Returned(ipLen) == { output.addrs[k].id : k \in { j \in DOMAIN output.addrs : IPLen(output.addrs[j]) = ipLen } }

\* C18's example: MaxFilter(3) over five IPv4 and five IPv6 addresses returned
\* the first two IPv4 addresses and the first IPv6 address
C18_WitnessFiveEach ==
  /\ applied = "MaxFilter" /\ input.max = 3 /\ input.list = FiveEach
  /\ Len(output.addrs) = 3
  /\ Returned(4) = {1, 2}
  /\ Returned(16) = {6}

\* MaxFilter(2) found one IPv6 address and filled the rest with IPv4
C18_WitnessFill ==
  /\ applied = "MaxFilter005" /\ input.max = 2
  /\ CountOfLen(input.list, 16) = 1 /\ CountOfLen(input.list, 4) = 3
  /\ Len(output.addrs) = 2 /\ Cardinality(Returned(16)) = 1

\* the places of the addresses of list whose IP has ipLen bytes
PlacesOfLen(list, ipLen) == { j \in DOMAIN list : IPLen(list[j]) = ipLen }

\* the first place of a set of places
FirstPlace(S) == CHOOSE j \in S : \A m \in S : j <= m

\* C19: DefaultFilter returns exactly the first IPv4 address of the list when
\* the list contains any IPv4 address, whatever its position; otherwise exactly
\* the first IPv6 address; otherwise the empty result.  A list of length <= 1
\* is returned unchanged.
C19_DefaultFirstIPv4 ==
  applied \in {"DefaultFilter", "defaultIP"} =>
    LET list == input.list
        v4   == PlacesOfLen(list, 4)
        v6   == PlacesOfLen(list, 16)
    IN output.addrs = IF Len(list) <= 1 THEN list
                      ELSE IF v4 # {} THEN <<list[FirstPlace(v4)]>>
                      ELSE IF v6 # {} THEN <<list[FirstPlace(v6)]>>
                      ELSE <<>>

\* DefaultFilter returned the IPv4 address that came last, after IPv6 addresses
C19_WitnessIPv4Last ==
  /\ applied = "DefaultFilter"
  /\ Len(input.list) = MaxList
  /\ PlacesOfLen(input.list, 4) = {MaxList}
  /\ PlacesOfLen(input.list, 16) # {}
  /\ output.addrs = <<input.list[MaxList]>>

\* defaultIP found no IPv4 address and returned the first IPv6 address, which
\* was not the first address
C19_WitnessIPv6 ==
  /\ applied = "defaultIP"
  /\ PlacesOfLen(input.list, 4) = {}
  /\ 1 \notin PlacesOfLen(input.list, 16)
  /\ Len(output.addrs) = 1 /\ IPLen(output.addrs[1]) = 16 /\ output.addrs[1].id = 2

\* DefaultFilter found neither family in a list of two and returned nothing
C19_WitnessNeither ==
  /\ applied = "DefaultFilter"
  /\ Len(input.list) = 2
  /\ output.addrs = <<>>

\* the addresses chosen are addresses of the collection given, in its order
KeepsOrder(chosen) ==
  /\ \A j \in DOMAIN chosen : chosen[j].id \in DOMAIN input.list /\ chosen[j] = input.list[chosen[j].id]
  /\ \A j \in 1..(Len(chosen) - 1) : chosen[j].id < chosen[j + 1].id

\* the policies of filter.go
Policies == Filters \cup {"ComposeFilters"}

\* C20 as stated: no filter policy modifies the collection it is given, and the
\* result of every policy except Reverse and Shuffle keeps the selected
\* addresses in their input order
C20_OrderKeptButReverseShuffle ==
  applied \in Policies =>
    /\ output.given = input.list
    /\ applied \notin {"ReverseFilter", "ShuffleFilter"} => KeepsOrder(output.addrs)

\* the filter applied is Reverse or Shuffle, or composes one of them
Reorders(in) ==
  \/ in.policy \in {"ReverseFilter", "ShuffleFilter"}
  \/ \E k \in DOMAIN in.filters : in.filters[k] \in {"ReverseFilter", "ShuffleFilter"}

\* C20: no filter policy (Default, First, FirstEach, IPv4-only, IPv6-only, Max,
\* Reverse, Shuffle, None, Compose) modifies the collection it is given: after
\* the call the input holds the same addresses in the same order; and the
\* result of every policy except Reverse, Shuffle and a Compose of filters
\* among which is Reverse or Shuffle keeps the selected addresses in their
\* input order.
C20_InputKept ==
  applied \in Policies =>
    /\ output.given = input.list
    /\ ~Reorders(input) => KeepsOrder(output.addrs)

\* two filters were composed over a full collection, the second was handed the
\* collection the first built, and more than one address was selected
C20_Witness ==
  /\ applied = "ComposeFilters"
  /\ Len(input.filters) = 2 /\ ~Reorders(input)
  /\ Len(input.list) = MaxComposed
  /\ ~output.same
  /\ Len(output.addrs) > 1 /\ Len(output.addrs) < MaxComposed

\* ReverseFilter returned the addresses in reverse order and the collection
\* given still holds them in its own order
C20_WitnessReverse ==
  /\ applied = "ReverseFilter"
  /\ Len(input.list) = MaxList
  /\ output.addrs = [k \in 1..MaxList |-> input.list[MaxList + 1 - k]]
  /\ output.given = input.list

\* C20's refuting case: ComposeFilters(ReverseFilter) returned the addresses
\* in reverse order
C20_ComposedReverse ==
  /\ applied = "ComposeFilters"
  /\ input.filters = <<"ReverseFilter">>
  /\ Len(input.list) > 1
  /\ ~KeepsOrder(output.addrs)

(***************************************************************************)
(* resolveInternetAddrs of resolve.go for any host: a literal IPv4         *)
(* address, which parseIPv4 returns in its 16-byte form, a literal IPv6    *)
(* address with or without a zone, or a name, which is looked up.  lookups *)
(* counts the calls of lookupIPDeadline.                                   *)
(***************************************************************************)
\* the hosts of an address: kind, zone and, for a name, the IPs its lookup returns
HostParts ==
  [kind : {"ipv4"}, zone : {""}, ips : {<<>>}]
    \cup [kind : {"ipv6"}, zone : Zones, ips : {<<>>}]
    \cup [kind : {"name"}, zone : Zones, ips : IPLists(MaxIPs)]

\* the IP that parseIPv4 (net.IPv4) and parseIPv6 return for a literal
LiteralIP(host) ==
  IF host.kind = "ipv4" THEN [form |-> "4in6", id |-> 1] ELSE [form |-> "6", id |-> 1]

\* resolveInternetAddrs, lines 150-175
resolveInternetAddrs(nett, host) ==
  IF host.kind \in {"ipv4", "ipv6"}
  THEN [addrs |-> <<LiteralIP(host)>>, err |-> nil, lookups |-> 0]
  ELSE LET r == filterAddrs(FamilyFilter(nett, host.zone), host.ips)
       IN [addrs |-> r.addrs, err |-> r.err, lookups |-> 1]

InitLiteral ==
  /\ DialInit
  /\ rev = 1
  /\ d = [Timeout |-> 0, Deadline |-> 0]
  /\ call = [network |-> <<"t","c","p">>, literal |-> FALSE]
  /\ CacheIdle
  /\ supportsIPv4 \in BOOLEAN
  /\ supportsIPv6 \in BOOLEAN
  /\ input \in [nett : NarrowNetworks, host : HostParts]
  /\ output = <<>>
  /\ applied = ""

\* one call of resolveInternetAddrs
HostResolved ==
  /\ applied = ""
  /\ applied' = "resolveAddrs"
  /\ output' = resolveInternetAddrs(input.nett, input.host)
  /\ UNCHANGED <<dialVars, cacheVars, supportsIPv4, supportsIPv6, input>>

SpecLiteral == InitLiteral /\ [][HostResolved]_vars

\* the literal of the call is one the claim says is not suitable: an IPv4
\* literal on a network ending in 6, or a literal of a family the platform
\* does not support
UnsuitableLiteral ==
  \/ input.host.kind = "ipv4" /\ (EndsIn(input.nett, "6") \/ ~supportsIPv4)
  \/ input.host.kind = "ipv6" /\ ~supportsIPv6

\* C21: when the host part of the address parses as a literal IPv4 or IPv6
\* address the Resolver is never invoked; the literal is still narrowed by
\* family, so the result is either exactly one address (the literal) or, for
\* an IPv4 literal on a network ending in 6 or a literal of a family the
\* platform does not support, the no-suitable-address error.
C21_LiteralNarrowed ==
  (applied = "resolveAddrs" /\ input.host.kind \in {"ipv4", "ipv6"}) =>
    /\ output.lookups = 0
    /\ IF UnsuitableLiteral
       THEN output.err = errNoSuitableAddress /\ output.addrs = <<>>
       ELSE output.err = nil /\ Len(output.addrs) = 1 /\ output.addrs[1].id = 1

\* C21's failing case: the IPv4 literal of a call on tcp6 was returned as an
\* address, without an error
C21_LiteralOnNetwork6 ==
  /\ applied = "resolveAddrs"
  /\ input.host.kind = "ipv4" /\ input.nett = <<"t","c","p","6">>
  /\ ~supportsIPv4 /\ supportsIPv6
  /\ output.err = nil /\ Len(output.addrs) = 1

\* the part of C21 that holds: a literal is never looked up, and a literal
\* the claim calls suitable is returned as the one address
C21_LiteralNotLookedUp ==
  (applied = "resolveAddrs" /\ input.host.kind \in {"ipv4", "ipv6"}) =>
    /\ output.lookups = 0
    /\ ~UnsuitableLiteral =>
         output.err = nil /\ Len(output.addrs) = 1 /\ output.addrs[1].id = 1

(***************************************************************************)
(* The literal address parsers of resolve.go.  A string is a sequence of   *)
(* characters, indexed from 0 as in the source: At(s, k) is s[k].  The     *)
(* scanners dtoi and xtoi are the shared scanners of section 4.1: each     *)
(* reads the run of digits that starts at a place, stops at the first      *)
(* character that is no digit and fails when the run is empty.             *)
(***************************************************************************)
\* the longest string of tokens parseIPv4 is given
MaxTokens == 7

\* the pieces the strings given to parseIPv4 are made of
Tokens4 == { <<"0">>, <<"2", "5", "5">>, <<"2", "5", "6">>, <<".">>, <<"x">> }

RECURSIVE Concat(_)
\* the pieces of ts, one after the other
Concat(ts) == IF ts = <<>> THEN <<>> ELSE Head(ts) \o Concat(Tail(ts))

\* the sequences of at most n pieces
Pieces(pieces, n) == UNION { [1..m -> pieces] : m \in 0..n }

At(s, k) == s[k + 1]

DecDigits == {"0", "1", "2", "3", "4", "5", "6", "7", "8", "9"}

HexLetters == {"a", "b", "c", "d", "e", "f"}

\* the value of a digit
DigitVal(c) ==
  CASE c = "0" -> 0 [] c = "1" -> 1 [] c = "2" -> 2 [] c = "3" -> 3 [] c = "4" -> 4
    [] c = "5" -> 5 [] c = "6" -> 6 [] c = "7" -> 7 [] c = "8" -> 8 [] c = "9" -> 9
    [] c = "a" -> 10 [] c = "b" -> 11 [] c = "c" -> 12 [] c = "d" -> 13
    [] c = "e" -> 14 [] c = "f" -> 15

\* the scanners give up at this value: 0xFFFFFF
Big == 16777215

RECURSIVE Scan(_, _, _, _, _)
\* the loop of a scanner: n is the value read so far, k the place reached;
\* over is set when the value reaches Big
Scan(s, k, n, digits, base) ==
  IF k < Len(s) /\ At(s, k) \in digits
  THEN LET m == n * base + DigitVal(At(s, k))
       IN IF m >= Big THEN [n |-> 0, at |-> k, over |-> TRUE]
          ELSE Scan(s, k + 1, m, digits, base)
  ELSE [n |-> n, at |-> k, over |-> FALSE]

\* dtoi(s, i0): the decimal number that starts at i0, the place after it, and
\* whether there was a digit
dtoi(s, i0) ==
  LET r == Scan(s, i0, 0, DecDigits, 10)
  IN IF r.over \/ r.at = i0 THEN [n |-> 0, at |-> r.at, ok |-> FALSE]
     ELSE [n |-> r.n, at |-> r.at, ok |-> TRUE]

\* xtoi(s, i0): the same for a hexadecimal number
xtoi(s, i0) ==
  LET r == Scan(s, i0, 0, DecDigits \cup HexLetters, 16)
  IN IF r.over \/ r.at = i0 THEN [n |-> 0, at |-> r.at, ok |-> FALSE]
     ELSE [n |-> r.n, at |-> r.at, ok |-> TRUE]

\* net.IPv4(a, b, c, d): the 16-byte form of an IPv4 address
IPv4(p) == <<0, 0, 0, 0, 0, 0, 0, 0, 0, 0, 255, 255>> \o p

\* the result of a parser that fails
NoIP == <<>>

\* an octet may be 256
OctetTooLargeFrom256(n) == n > 256

\* parseIPv4, line 307: n > 0xFF
OctetTooLarge(n) == n > 255

RECURSIVE parseIPv4Loop(_, _, _, _)
\* the loop of parseIPv4, lines 290-311, and the check after it; k is i and p
\* the octets read
parseIPv4Loop(s, k, j, p) ==
  IF j = 4 THEN (IF k # Len(s) THEN NoIP ELSE IPv4(p))
  ELSE IF k >= Len(s) THEN NoIP
  ELSE IF j > 0 /\ At(s, k) # "." THEN NoIP
  ELSE LET r == dtoi(s, IF j > 0 THEN k + 1 ELSE k)
       IN IF ~r.ok \/ OctetTooLarge(r.n) THEN NoIP
          ELSE parseIPv4Loop(s, r.at, j + 1, Append(p, r.n))

parseIPv4(s) == parseIPv4Loop(s, 0, 0, <<>>)

InitParse4 ==
  /\ DialInit
  /\ rev = 1
  /\ d = [Timeout |-> 0, Deadline |-> 0]
  /\ call = [network |-> <<"t","c","p">>, literal |-> FALSE]
  /\ CacheIdle
  /\ supportsIPv4 = TRUE
  /\ supportsIPv6 = TRUE
  /\ input \in Pieces(Tokens4, MaxTokens)
  /\ output = <<>>
  /\ applied = ""

\* one call of parseIPv4
ParsedIPv4 ==
  /\ applied = ""
  /\ applied' = "parseIPv4"
  /\ output' = parseIPv4(Concat(input))
  /\ UNCHANGED <<dialVars, cacheVars, supportsIPv4, supportsIPv6, input>>

SpecParse4 == InitParse4 /\ [][ParsedIPv4]_vars

RECURSIVE SplitAt(_, _)
\* the segments of s between the characters sep
SplitAt(s, sep) ==
  IF \A k \in DOMAIN s : s[k] # sep THEN <<s>>
  ELSE LET first == CHOOSE k \in DOMAIN s : s[k] = sep /\ \A m \in 1..(k - 1) : s[m] # sep
       IN <<SubSeq(s, 1, first - 1)>> \o SplitAt(SubSeq(s, first + 1, Len(s)), sep)

RECURSIVE Decimal(_)
\* the value of a run of decimal digits, or 256 when the value is above 255
Decimal(run) ==
  IF run = <<>> THEN 0
  ELSE LET v == 10 * Decimal(SubSeq(run, 1, Len(run) - 1)) + DigitVal(run[Len(run)])
       IN IF v > 255 THEN 256 ELSE v

\* s is a run of at least one decimal digit
IsDigits(s) == s # <<>> /\ \A k \in DOMAIN s : s[k] \in DecDigits

\* s is four runs of decimal digits, each of value 0..255, separated by single dots
IsDottedQuad(s) ==
  LET segs == SplitAt(s, ".")
  IN Len(segs) = 4 /\ \A k \in 1..4 : IsDigits(segs[k]) /\ Decimal(segs[k]) <= 255

\* the string parseIPv4 is given
Text == Concat(input)

C22_WitnessOctet ==
  /\ applied = "parseIPv4"
  /\ Text = <<"0", ".", "2", "5", "6", ".", "0", ".", "0">>
  /\ output = NoIP

\* parseIPv4 rejected three segments, and an empty segment
C22_WitnessSegments ==
  /\ applied = "parseIPv4"
  /\ Text \in { <<"0", ".", "0", ".", "0">>, <<"0", ".", ".", "0", ".", "0">> }
  /\ output = NoIP

(***************************************************************************)
(* parseIPv6, for a string without a zone.  The address being built is a   *)
(* function on 0..15, as ip is indexed in the source.                      *)
(***************************************************************************)
\* the longest string of tokens parseIPv6 is given, before its tail
MaxTokens6 == 9

\* the pieces the strings given to parseIPv6 are made of
Tokens6 == { <<"1", "a", "b", ":">>, <<"1">>, <<":">> }

\* what may follow the pieces: nothing, or the rest of a trailing IPv4 address
Tails6 == { <<>>, <<".", "0", ".", "2", "5", "5", ".", "2">> }

\* make(net.IP, net.IPv6len)
ZeroIP == [k \in 0..15 |-> 0]

\* the bytes of ip as a sequence
Bytes(ip) == [k \in 1..16 |-> ip[k - 1]]

RECURSIVE ShiftLoop(_, _, _, _)
\* lines 408-410: for k := j - 1; k >= ellipsis; k-- { ip[k+n] = ip[k] }
ShiftLoop(ip, k, n, ellipsis) ==
  IF k < ellipsis THEN ip
  ELSE ShiftLoop([ip EXCEPT ![k + n] = ip[k]], k - 1, n, ellipsis)

RECURSIVE ZeroLoop(_, _, _)
\* lines 411-413: for k := ellipsis + n - 1; k >= ellipsis; k-- { ip[k] = 0 }
ZeroLoop(ip, k, ellipsis) ==
  IF k < ellipsis THEN ip
  ELSE ZeroLoop([ip EXCEPT ![k] = 0], k - 1, ellipsis)

\* an ellipsis that stands for no group is accepted
AcceptFull(ip, ellipsis) == Bytes(ip)

\* lines 414-417: 16 bytes were written
RejectEmptyEllipsis(ip, ellipsis) == IF ellipsis >= 0 THEN NoIP ELSE Bytes(ip)

\* lines 398-418: after the loop
parseIPv6End(s, k, j, ip, ellipsis) ==
  IF k # Len(s) THEN NoIP
  ELSE IF j < 16
       THEN IF ellipsis < 0 THEN NoIP
            ELSE Bytes(ZeroLoop(ShiftLoop(ip, j - 1, 16 - j, ellipsis),
                                ellipsis + (16 - j) - 1, ellipsis))
       ELSE RejectEmptyEllipsis(ip, ellipsis)

RECURSIVE parseIPv6Loop(_, _, _, _, _)
\* lines 342-396: the loop over the hex numbers; k is i
parseIPv6Loop(s, k, j, ip, ellipsis) ==
  IF j >= 16 THEN parseIPv6End(s, k, j, ip, ellipsis)
  ELSE LET r == xtoi(s, k)
       IN IF ~r.ok \/ r.n > 65535 THEN NoIP
          ELSE IF r.at < Len(s) /\ At(s, r.at) = "."
          THEN IF ellipsis < 0 /\ j # 12 THEN NoIP
               ELSE IF j + 4 > 16 THEN NoIP
               ELSE LET ip4 == parseIPv4(SubSeq(s, k + 1, Len(s)))
                    IN IF ip4 = NoIP THEN NoIP
                       ELSE parseIPv6End(s, Len(s), j + 4,
                              [ip EXCEPT ![j] = ip4[13], ![j + 1] = ip4[14],
                                         ![j + 2] = ip4[15], ![j + 3] = ip4[16]],
                              ellipsis)
          ELSE LET saved == [ip EXCEPT ![j] = r.n \div 256, ![j + 1] = r.n % 256]
               IN IF r.at = Len(s) THEN parseIPv6End(s, r.at, j + 2, saved, ellipsis)
                  ELSE IF At(s, r.at) # ":" \/ r.at + 1 = Len(s) THEN NoIP
                  ELSE IF At(s, r.at + 1) = ":"
                       THEN IF ellipsis >= 0 THEN NoIP
                            ELSE IF r.at + 2 = Len(s)
                                 THEN parseIPv6End(s, r.at + 2, j + 2, saved, j + 2)
                                 ELSE parseIPv6Loop(s, r.at + 2, j + 2, saved, j + 2)
                       ELSE parseIPv6Loop(s, r.at + 1, j + 2, saved, ellipsis)

\* parseIPv6(s, false)
parseIPv6(s) ==
  IF Len(s) >= 2 /\ At(s, 0) = ":" /\ At(s, 1) = ":"
  THEN IF Len(s) = 2 THEN Bytes(ZeroIP) ELSE parseIPv6Loop(s, 2, 0, ZeroIP, 0)
  ELSE parseIPv6Loop(s, 0, 0, ZeroIP, -1)

InitParse6 ==
  /\ DialInit
  /\ rev = 1
  /\ d = [Timeout |-> 0, Deadline |-> 0]
  /\ call = [network |-> <<"t","c","p">>, literal |-> FALSE]
  /\ CacheIdle
  /\ supportsIPv4 = TRUE
  /\ supportsIPv6 = TRUE
  /\ input \in Pieces(Tokens6, MaxTokens6) \X Tails6
  /\ output = <<>>
  /\ applied = ""

\* the string parseIPv6 is given
Text6 == Concat(input[1]) \o input[2]

\* one call of parseIPv6
ParsedIPv6 ==
  /\ applied = ""
  /\ applied' = "parseIPv6"
  /\ output' = parseIPv6(Text6)
  /\ UNCHANGED <<dialVars, cacheVars, supportsIPv4, supportsIPv6, input>>

SpecParse6 == InitParse6 /\ [][ParsedIPv6]_vars

\* the places of s where a "::" starts
EllipsisPlaces(s) == { k \in 1..(Len(s) - 1) : s[k] = ":" /\ s[k + 1] = ":" }

RECURSIVE Hex(_)
\* the value of a run of hexadecimal digits
Hex(run) ==
  IF run = <<>> THEN 0
  ELSE 16 * Hex(SubSeq(run, 1, Len(run) - 1)) + DigitVal(run[Len(run)])

\* a group is written as a trailing IPv4 address
Dotted(seg) == \E k \in DOMAIN seg : seg[k] = "."

\* the bytes a written group stands for
GroupBytes(seg) ==
  IF Dotted(seg) THEN SubSeq(parseIPv4(seg), 13, 16)
  ELSE <<Hex(seg) \div 256, Hex(seg) % 256>>

\* the groups written in part, a piece of the string on one side of the ellipsis
Groups(part) == IF part = <<>> THEN <<>> ELSE SplitAt(part, ":")

RECURSIVE AllBytes(_)
\* the bytes the groups gs stand for, in their order
AllBytes(gs) == IF gs = <<>> THEN <<>> ELSE GroupBytes(Head(gs)) \o AllBytes(Tail(gs))

RECURSIVE Written(_)
\* the number of bytes the groups gs take
Written(gs) ==
  IF gs = <<>> THEN 0 ELSE (IF Dotted(Head(gs)) THEN 4 ELSE 2) + Written(Tail(gs))

\* the string before the ellipsis of s, and the string after it
BeforeEllipsis(s) == SubSeq(s, 1, (CHOOSE k \in EllipsisPlaces(s) : TRUE) - 1)

AfterEllipsis(s) == SubSeq(s, (CHOOSE k \in EllipsisPlaces(s) : TRUE) + 2, Len(s))

\* C23: parseIPv6 accepts at most one "::".  On acceptance the result is
\* exactly 16 bytes: the groups written before the ellipsis, then zero bytes,
\* then the groups written after it, the zeros filling the result to 16 bytes.
\* An input with two "::", an input with fewer than 8 groups and no "::", and
\* an input where "::" would stand for zero groups (16 bytes already written)
\* are all rejected; "::" alone is all zero and "::1" is 15 zero bytes
\* followed by 0x01.
C23_ParseIPv6 ==
  applied = "parseIPv6" =>
    LET s      == Text6
        n      == Cardinality(EllipsisPlaces(s))
        before == Groups(BeforeEllipsis(s))
        after  == Groups(AfterEllipsis(s))
    IN /\ output # NoIP =>
            /\ n <= 1
            /\ Len(output) = 16
            /\ n = 0 => output = AllBytes(Groups(s))
            /\ n = 1 =>
                 /\ Written(before) + Written(after) < 16
                 /\ output = AllBytes(before)
                               \o [k \in 1..(16 - Written(before) - Written(after)) |-> 0]
                               \o AllBytes(after)
       /\ n >= 2 => output = NoIP
       /\ (n = 0 /\ Written(Groups(s)) < 16) => output = NoIP
       /\ (n = 1 /\ Written(before) + Written(after) >= 16) => output = NoIP
       /\ s = <<":", ":">> => output = [k \in 1..16 |-> 0]
       /\ s = <<":", ":", "1">> => output = [k \in 1..16 |-> IF k = 16 THEN 1 ELSE 0]

\* parseIPv6 accepted a string with groups on both sides of its ellipsis
C23_Witness ==
  /\ applied = "parseIPv6"
  /\ Text6 = <<"1", "a", "b", ":", "1", ":", ":", "1", "a", "b", ":", "1", ".", "0", ".", "2", "5", "5", ".", "2">>
  /\ output = <<1, 171, 0, 1, 0, 0, 0, 0, 0, 0, 1, 171, 1, 0, 255, 2>>

\* parseIPv6 rejected eight groups with an ellipsis among them
C23_WitnessEmptyEllipsis ==
  /\ applied = "parseIPv6"
  /\ Cardinality(EllipsisPlaces(Text6)) = 1
  /\ Written(Groups(BeforeEllipsis(Text6))) = 8 /\ Written(Groups(AfterEllipsis(Text6))) = 8
  /\ input[2] = <<>>
  /\ output = NoIP

\* parseIPv6 accepted eight groups, and "::1"
C23_WitnessFull ==
  /\ applied = "parseIPv6"
  /\ \/ EllipsisPlaces(Text6) = {} /\ Len(output) = 16 /\ input[2] = <<>>
     \/ Text6 = <<":", ":", "1">> /\ Len(output) = 16 /\ output[16] = 1

\* parseIPv6 rejected seven groups without an ellipsis
C23_WitnessShort ==
  /\ applied = "parseIPv6"
  /\ EllipsisPlaces(Text6) = {}
  /\ input[1] = [k \in 1..7 |-> IF k = 7 THEN <<"1">> ELSE <<"1", "a", "b", ":">>]
  /\ input[2] = <<>>
  /\ output = NoIP

\* what the filter name of part_006 returns for list
Selected(name, list) == Filter(name, list, 0, <<>>).addrs

\* C24: ComposeAddrsFilters applies its filters left to right, each to the
\* result of the previous one, and ComposeAddrsFilters(IPv4AddrsFilter,
\* FirstAddrsFilter) returns the same list as FirstIPv4AddrsFilter for every
\* input list, including lists of length 0 and 1.
C24_ComposeIsFirstIPv4 ==
  applied = "ComposeAddrsFilters" =>
    /\ Len(input.filters) = 2 =>
         output.addrs = Selected(input.filters[2], Selected(input.filters[1], input.list))
    /\ input.filters = <<"IPv4AddrsFilter", "FirstAddrsFilter">> =>
         output.addrs = Selected("FirstIPv4AddrsFilter", input.list)

\* C24's failing case: the composition returned nothing for a list of one
\* address that is not IPv4, which FirstIPv4AddrsFilter returns as it is
C24_SingleNotIPv4 ==
  /\ applied = "ComposeAddrsFilters"
  /\ input.filters = <<"IPv4AddrsFilter", "FirstAddrsFilter">>
  /\ Len(input.list) = 1 /\ IPLen(input.list[1]) = 16
  /\ output.addrs = <<>>
  /\ Selected("FirstIPv4AddrsFilter", input.list) = input.list

\* the part of C24 that holds: the filters are applied left to right, and the
\* two filters agree on every list but a list of one address that is not IPv4
C24_AgreeButSingleNotIPv4 ==
  applied = "ComposeAddrsFilters" =>
    /\ Len(input.filters) = 2 =>
         output.addrs = Selected(input.filters[2], Selected(input.filters[1], input.list))
    /\ (/\ input.filters = <<"IPv4AddrsFilter", "FirstAddrsFilter">>
        /\ ~(Len(input.list) = 1 /\ IPLen(input.list[1]) # 4)) =>
         output.addrs = Selected("FirstIPv4AddrsFilter", input.list)


(***************************************************************************)
(* The race under a scheduler.  The Go scheduler runs every goroutine that *)
(* can take a step, so the steps of Dial itself and the channel operations *)
(* of the racers are weakly fair; the calls into the outside (the Resolver *)
(* and the OS-level dial) carry no such promise here.                      *)
(***************************************************************************)
\* Dial, lines 109-122, resolveAddrsDeadline and the loop of dialMulti: the
\* steps taken by the goroutine that called Dial
DialSteps ==
  \/ DialStart
  \/ ResolveNoDeadline
  \/ ResolveExpired
  \/ ResolveSpawn
  \/ SelectTimer
  \/ SelectResc
  \/ DialResolveFailed
  \/ DialResolved
  \/ Launch
  \/ SigSend
  \/ LaneRecv
  \/ ReturnLastErr

\* racer, lines 172-180: the channel operations of the goroutine of address a
RacerSteps(a) == RacerRecvSig(a) \/ RacerSendLane(a)

SpecRace ==
  /\ Init
  /\ [][Next]_vars
  /\ WF_vars(DialSteps)
  /\ \A a \in Addrs : WF_vars(RacerSteps(a))

\* no racer has handed over an outcome
NoReport == laneOrder = <<>>

\* C25 as stated: in a raced Dial in which no attempt ever reports a success or
\* an error, Dial returns a Timeout error
C25_TimeoutFallback ==
  (<>Raced /\ []NoReport) => <>(pc = "done" /\ ret.conn = 0 /\ Timeout(ret.err))

\* C25: a raced Dial returns only after an attempt has reported, and what it
\* returns is the connection or the error of an attempt, never the Timeout
\* error that lastErr starts as; while no attempt has reported, Dial has not
\* returned
C25_ReturnsAfterReport ==
  (Raced /\ pc = "done") =>
     /\ ~NoReport
     /\ ret.err # errTimeout
     /\ ret.err = nil \/ ret.err = lastErr
     /\ ret.err # nil => \E a \in Candidates : lastErr = DialError(call.network, a)

\* Dial has offered a token and waits for an outcome that no attempt has reported
C25_Witness ==
  /\ Raced
  /\ pc = "laneRecv"
  /\ NoReport
  /\ lane = <<>>
  /\ lastErr = errTimeout
  /\ \A a \in Candidates : racer[a].pc = "dial"

\* every attempt has reported an error and Dial has returned the last one
C25_WitnessReturned ==
  /\ Raced
  /\ pc = "done"
  /\ Len(laneOrder) = addrsLen
  /\ ret.err = DialError(call.network, laneOrder[addrsLen])

\* the tokens that have been offered and not yet answered by an outcome that
\* Dial has consumed: in sig, held by a racer, or as an outcome in lane
TokensOut == Len(sig) + Cardinality({ a \in Addrs : racer[a].pc = "sendLane" }) + Len(lane)

\* the outcomes Dial has consumed: none while it starts the racers (i counts
\* the racers then), afterwards the errors counted by i and the success
Consumed ==
  IF pc = "launch" THEN 0 ELSE i + (IF pc = "done" /\ ret.err = nil THEN 1 ELSE 0)

\* the outcome the racer of address a hands over
OutcomeOf(a) == [conn |-> racer[a].conn, err |-> racer[a].err]

\* one token at a time, one outcome per token, outcomes in the order in which
\* the attempts handed them over
OneTokenOneOutcome ==
  Raced =>
    /\ TokensOut = (IF pc = "laneRecv" THEN 1 ELSE 0)
    /\ Len(laneOrder) = Consumed + Len(lane)
    /\ Len(lane) <= 1
    /\ \A a \in Addrs : racer[a].pc \in {"sendLane", "done"} => osDials[a] = 1
    /\ lane # <<>> => Head(lane) = OutcomeOf(laneOrder[Len(laneOrder)])
    /\ pc = "done" /\ ret.err = nil => ret.conn = laneOrder[Len(laneOrder)] /\ sig = <<>>

\* the step in which Dial consumes an outcome
ConsumeStep ==
  (pc = "laneRecv" /\ pc' # pc) =>
    /\ lane # <<>> /\ lane' = <<>>
    /\ UNCHANGED <<sig, racer, laneOrder, osDials>>
    /\ IF Head(lane).err = nil
       THEN pc' = "done" /\ ret' = [conn |-> Head(lane).conn, err |-> nil]
       ELSE pc' = "sigSend" /\ i' = i + 1

\* C26: in a raced Dial one token is out at a time and one outcome is consumed
\* per token, in the order in which the attempts handed their outcomes over;
\* the first outcome that is a success is returned in the step that consumes
\* it, with no further token offered
C26_TokenPerOutcome == [][OneTokenOneOutcome' /\ ConsumeStep]_vars

\* the second address reported first and failed, the first was consumed after it
C26_Witness ==
  /\ Raced
  /\ pc = "sigSend"
  /\ i = 2
  /\ laneOrder[1] = 2 /\ laneOrder[2] = 1

\* Dial has returned the first success while another attempt is still dialing
C26_WitnessInFlight ==
  /\ Raced
  /\ pc = "done" /\ ret.err = nil
  /\ Len(laneOrder) =  1
  /\ \E a \in Candidates : racer[a].pc = "dial"
  /\ sig = <<>>

\* the racers that have been started
Launched == { a \in Addrs : racer[a].pc # "idle" }

\* C27: a Dial call invokes the Resolver at most once and dials each candidate
\* address at most once; in a race over N candidates the racers are started
\* one by one before any outcome is consumed, exactly N are started, and a
\* racer whose dial has failed never dials again
C27_OneAttemptEach ==
  /\ resolverCalls <= 1
  /\ \A a \in Addrs : osDials[a] <= 1
  /\ \A a \in Addrs : osDials[a] = 1 => res.err = nil /\ a \in Candidates
  /\ Raced =>
       /\ addrsLen >= 2
       /\ IF pc = "launch"
          THEN Launched = 1..i /\ laneOrder = <<>> /\ TokensOut = 0
          ELSE Launched = Candidates
       /\ \A a \in Launched :
            /\ racer[a].pc = "dial" <=> osDials[a] = 0
            /\ racer[a].err # nil => racer[a].pc # "dial"

\* a race over three candidates: the Resolver ran once, each address was dialed
\* once, and Dial has returned the last of three errors
C27_Witness ==
  /\ Raced
  /\ addrsLen = 3
  /\ resolverCalls = 1
  /\ pc = "done" /\ ret.err # nil
  /\ \A a \in Candidates : osDials[a] = 1 /\ racer[a].err # nil

(***************************************************************************)
(* Termination.  The claim is made under the proviso that the Resolver     *)
(* call and every OS-level dial return, so these steps are weakly fair     *)
(* here, like the steps the scheduler runs.                                *)
(***************************************************************************)
\* A goroutine runs its steps one after the other, so fairness is stated per
\* goroutine: the caller of Dial, the resolution goroutine, and each racer.
\* the Dial calls whose goroutines are followed to their end: a network that
\* is raced and one that is not
InitTerminate == Init /\ call.network \in { <<"t","c","p">>, <<"u","d","p">> }

SpecTerminate ==
  /\ InitTerminate
  /\ [][Next]_vars
  /\ WF_vars(DialSteps \/ DialSingle)
  /\ WF_vars(ResolverRun)
  /\ \A a \in Addrs : WF_vars(RacerDial(a) \/ RacerSteps(a))

\* every goroutine Dial has started has ended
AllTerminated ==
  /\ pc = "done"
  /\ rpc \in {"none", "done"}
  /\ \A a \in Addrs : racer[a].pc \in {"idle", "done"}

\* no goroutine is at a channel operation that cannot proceed: a racer that
\* holds a token finds lane empty, the resolution goroutine finds resc empty,
\* and once Dial has returned no token is left and a racer that waits for one
\* sees sig closed
NeverBlocked ==
  /\ \A a \in Addrs : racer[a].pc = "sendLane" => lane = <<>>
  /\ rpc = "run" => resc = <<>>
  /\ pc = "done" =>
       /\ sig = <<>>
       /\ \A a \in Addrs : racer[a].pc # "sendLane"
       /\ \A a \in Addrs : racer[a].pc = "recvSig" => sigClosed

\* C28: provided the Resolver call and every OS-level dial return, every
\* goroutine started by Dial terminates; no racer and no resolution goroutine
\* is ever at a send that blocks, and after Dial has returned a racer that
\* waits for a token sees the closed channel
C28_GoroutinesTerminate == []NeverBlocked /\ <>[]AllTerminated

\* Dial has returned a connection while a racer, its dial returned, has yet to
\* see that sig is closed
C28_Witness ==
  /\ Raced
  /\ pc = "done" /\ ret.err = nil
  /\ \E a \in Candidates : racer[a].pc = "recvSig" /\ conns[a] = "open"

\* the timer has won and the resolution goroutine delivers its result afterwards
C28_WitnessLateResult ==
  /\ sel = "timer"
  /\ pc = "done"
  /\ rpc = "done"
  /\ resc # <<>>

\* the least of a non-empty set of places
Least(places) == CHOOSE k \in places : \A j \in places : k <= j

\* what the claim says both filters select: a list of at most one address as
\* it is, otherwise the first IPv4 address, else the first IPv6 address, else
\* nothing
OnePreferringIPv4(list) ==
  IF Len(list) <= 1 THEN list
  ELSE IF PlacesOfLen(list, 4) # {} THEN <<list[Least(PlacesOfLen(list, 4))]>>
  ELSE IF PlacesOfLen(list, 16) # {} THEN <<list[Least(PlacesOfLen(list, 16))]>>
  ELSE <<>>

\* C29: MaxFilter(1) and DefaultFilter return the same result for every list:
\* a list of at most one address unchanged, otherwise the first IPv4 address
\* if there is one, else the first IPv6 address, else the empty result
C29_MaxOneIsDefault ==
  /\ (applied = "MaxFilter" /\ input.max = 1) =>
        /\ output = DefaultFilter(input.list)
        /\ output.addrs = OnePreferringIPv4(input.list)
        /\ Len(input.list) <= 1 => output.same
  /\ applied = "DefaultFilter" =>
        /\ output = MaxFilter(1, input.list)
        /\ output.addrs = OnePreferringIPv4(input.list)
        /\ Len(input.list) <= 1 => output.same

\* MaxFilter(1) is given two IPv6 addresses and then an IPv4 address, and
\* selects the IPv4 address
C29_Witness ==
  /\ applied = "MaxFilter" /\ input.max = 1
  /\ Len(input.list) = 3
  /\ IPLen(input.list[1]) = 16 /\ IPLen(input.list[2]) = 16 /\ IPLen(input.list[3]) = 4
  /\ output.addrs = <<input.list[3]>>

\* DefaultFilter is given only IPv6 addresses and addresses without an IP
C29_WitnessIPv6 ==
  /\ applied = "DefaultFilter"
  /\ Len(input.list) = 3
  /\ IPLen(input.list[1]) = 0 /\ IPLen(input.list[2]) = 16 /\ IPLen(input.list[3]) = 16
  /\ output.addrs = <<input.list[2]>>

\* MaxFilter(1) is given addresses without an IP only, and selects nothing
C29_WitnessNone ==
  /\ applied = "MaxFilter" /\ input.max = 1
  /\ Len(input.list) = 2
  /\ \A k \in 1..2 : IPLen(input.list[k]) = 0
  /\ output.addrs = <<>>

\* the step in which caller c begins a Resolve of host h
Begins(c, h) == nCalls' = nCalls + 1 /\ rs'[c] # rs[c] /\ rs'[c].host = h

\* C30 as stated, with the instant an entry is stored read as the instant its
\* expiry was computed at: with TTL > 0 no write puts an earlier expiry in the
\* place of a later one, so the entry of a host carries the latest expiry ever
\* stored for it, and a Resolve that begins before that expiry does not go on
\* to the inner resolver
C30_ExpiryNeverEarlier ==
  [][TTL > 0 =>
       \A h \in Hosts :
         /\ cache'[h].expiry >= latest'[h]
         /\ \A c \in Callers :
              (Begins(c, h) /\ now < latest[h]) => rs'[c].pc # "inner"]_vars

\* C30: with TTL > 0 a write replaces the entry of a host unconditionally,
\* also by an entry whose expiry is earlier: the entry is always what the last
\* write stored, its expiry is the instant its writer read the clock plus TTL
\* and is at most the latest expiry stored so far; a Resolve that begins before
\* the expiry of the entry then in the cache does not invoke the inner
\* resolver, and every other Resolve does
C30_LastWriteWins ==
  [][TTL > 0 =>
       \A h \in Hosts :
         /\ cache'[h] = written'[h]
         /\ cache'[h].expiry <= latest'[h]
         /\ cache'[h] # NoEntry => cache'[h].expiry = cache'[h].at + TTL /\ cache'[h].at <= now'
         /\ \A c \in Callers :
              Begins(c, h) =>
                 IF cache[h] # NoEntry /\ now < cache[h].expiry
                 THEN rs'[c].pc = "returned" /\ lookups' = lookups
                 ELSE rs'[c].pc = "inner"]_vars

\* a write has put an earlier expiry in the place of a later one, and a Resolve
\* that began after it, before the later expiry, is about to invoke the inner
\* resolver
C30_Witness ==
  \E h \in Hosts, c \in Callers :
    /\ TTL > 0
    /\ cache[h] # NoEntry
    /\ cache[h].expiry < latest[h]
    /\ rs[c].pc = "inner" /\ rs[c].host = h
    /\ cache[h].expiry <= rs[c].at /\ rs[c].at < latest[h]

====
